---- MODULE Spec2Model ----
(***************************************************************************)
(* Model of the per-frame simulation and game-flow state machine of        *)
(* rust_blaster/src/main.rs.                                               *)
(*                                                                         *)
(* Arithmetic is fixed point:                                              *)
(*   lengths   in 1/100 of a world unit  (U  == 100)                       *)
(*   health    in 1/100 of a hit point   (HP == 100)                       *)
(*   time      in 1/60  of a second      (TicksPerSec == 60)               *)
(* Directions are integer vectors scaled by 1000.  Comparisons the source  *)
(* makes on sqrt() values are made on the squares.  The render-feedback    *)
(* scalars (screen_shake, muzzle_flash, hit_marker, damage_flash,          *)
(* pickup_msg, aim_transition) have no effect on the simulation and are    *)
(* not part of the state.                                                  *)
(***************************************************************************)
EXTENDS Integers, Sequences, FiniteSets, TLC

VARIABLES world, time, cursor_grab, mouse_shown, gamepad, last_frame, shots, clock,
          frames

vars == <<world, time, cursor_grab, mouse_shown, gamepad, last_frame, shots, clock,
          frames>>

\* ------------------------------------------------------------------------
\* Units
\* ------------------------------------------------------------------------
U == 100
HP == 100
TicksPerSec == 60

\* ------------------------------------------------------------------------
\* Bounds of the model
\* ------------------------------------------------------------------------
\* Frames explored from each initial state.
MaxFrames == 1

\* Ticks for which the flight of a projectile is followed.
MaxFlight == 1200

\* Frame times (ticks) the model draws get_frame_time() from.
DtSet == {10, 30}

\* ------------------------------------------------------------------------
\* Constants of the program
\* ------------------------------------------------------------------------
PLAYER_SPEED == 8 * U
PLAYER_SPRINT_NUM == 16
PLAYER_HEIGHT == 170
PLAYER_RADIUS == 30
MAX_HEALTH == 100 * HP
CELL_SIZE == 4 * U

Abs(n) == IF n < 0 THEN -n ELSE n
Min(a, b) == IF a < b THEN a ELSE b
Max(a, b) == IF a < b THEN b ELSE a

\* Rust `as i32` / `as usize` of a quotient: truncation toward zero.
TruncDiv(a, b) == IF a >= 0 THEN a \div b ELSE -((-a) \div b)

RECURSIVE SqrtSearch(_, _, _)
SqrtSearch(n, lo, hi) ==
    IF lo >= hi THEN lo
    ELSE LET mid == (lo + hi + 1) \div 2
         IN  IF mid * mid <= n THEN SqrtSearch(n, mid, hi)
             ELSE SqrtSearch(n, lo, mid - 1)

\* f32 sqrt, rounded down to the fixed-point grid.
Sqrt(n) == SqrtSearch(n, 0, 46340)

\* Sequencing of two statements: the value of e is computed first, then F of it.
Then(e, F(_)) == CHOOSE r \in {F(v) : v \in {e}} : TRUE

Vec3(x, y, z) == [x |-> x, y |-> y, z |-> z]
VAdd(a, b) == Vec3(a.x + b.x, a.y + b.y, a.z + b.z)
VSub(a, b) == Vec3(a.x - b.x, a.y - b.y, a.z - b.z)
LenSq(v) == v.x * v.x + v.y * v.y + v.z * v.z

\* ------------------------------------------------------------------------
\* Weapons
\* ------------------------------------------------------------------------
\* Static archetype table, indexed by current_weapon + 1.
\* interval is 1 / fire_rate in ticks; damage in HP units; spread in 1/1000 rad.
WeaponTable == <<
    [name |-> "PISTOL",      damage |-> 25 * HP,  interval |-> 20,  spread |-> 20,
     max_ammo |-> -1,  pellets |-> 1, explosive |-> FALSE],
    [name |-> "SHOTGUN",     damage |-> 12 * HP,  interval |-> 50,  spread |-> 120,
     max_ammo |-> 24,  pellets |-> 8, explosive |-> FALSE],
    [name |-> "MACHINE GUN", damage |-> 10 * HP,  interval |-> 5,   spread |-> 60,
     max_ammo |-> 200, pellets |-> 1, explosive |-> FALSE],
    [name |-> "ROCKET",      damage |-> 250 * HP, interval |-> 120, spread |-> 0,
     max_ammo |-> 20,  pellets |-> 1, explosive |-> TRUE] >>

NewWeapons == [i \in 1..4 |-> [ammo |-> WeaponTable[i].max_ammo, last_shot |-> 0]]

can_fire_any_time(wi, wpn, t) ==
    wpn.ammo > 0 \/ wpn.ammo < 0

can_fire_without_ammo(wi, wpn, t) ==
    t - wpn.last_shot >= WeaponTable[wi].interval

can_fire(wi, wpn, t) ==
    /\ t - wpn.last_shot >= WeaponTable[wi].interval
    /\ (wpn.ammo > 0 \/ wpn.ammo < 0)

fire(wpn, t) ==
    [last_shot |-> t, ammo |-> IF wpn.ammo > 0 THEN wpn.ammo - 1 ELSE wpn.ammo]

\* ------------------------------------------------------------------------
\* Enemies
\* ------------------------------------------------------------------------
EnemyTable ==
    [Grunt |-> [y0 |-> 100, health |-> 50 * HP,  speed |-> 350, damage |-> 10 * HP,
                attack_cd |-> 60, size |-> 80,  points |-> 100],
     Heavy |-> [y0 |-> 150, health |-> 150 * HP, speed |-> 180, damage |-> 25 * HP,
                attack_cd |-> 90, size |-> 120, points |-> 300],
     Demon |-> [y0 |-> 120, health |-> 70 * HP,  speed |-> 600, damage |-> 15 * HP,
                attack_cd |-> 36, size |-> 90,  points |-> 200]]

NewEnemy(etype, x, z) ==
    [pos |-> Vec3(x, EnemyTable[etype].y0, z), health |-> EnemyTable[etype].health,
     etype |-> etype, last_attack |-> 0, dead |-> FALSE, death_time |-> 0]

NewPickup(x, z, ptype) ==
    [pos |-> Vec3(x, 50, z), pickup_type |-> ptype, collected |-> FALSE]

\* ------------------------------------------------------------------------
\* Levels.  Each level is a miniature of the shipped grid with the same
\* symbol table: closed by walls, one P, one X, enemy and pickup markers.
\* ------------------------------------------------------------------------
level_1 ==
    [width |-> 9, height |-> 4, floor |-> [c \in {} |-> 0],
     grid |-> << <<"#", "#", "#", "#", "#", "#", "#", "#", "#">>,
                 <<"#", "P", "+", "H", "X", ".", "#", ".", "#">>,
                 <<"#", ".", ".", ".", ".", ".", ".", ".", "#">>,
                 <<"#", "#", "#", "#", "#", "#", "#", "#", "#">> >>]

level_2 ==
    [width |-> 8, height |-> 4, floor |-> [c \in {} |-> 0],
     grid |-> << <<"#", "#", "#", "#", "#", "#", "#", "#">>,
                 <<"#", "P", "A", ".", "G", ".", "G", "#">>,
                 <<"#", ".", ".", ".", "X", ".", ".", "#">>,
                 <<"#", "#", "#", "#", "#", "#", "#", "#">> >>]

level_3 ==
    [width |-> 6, height |-> 4, floor |-> [c \in {} |-> 0],
     grid |-> << <<"#", "#", "#", "#", "#", "#">>,
                 <<"#", "P", ".", "R", "D", "#">>,
                 <<"#", "S", "X", ".", ".", "#">>,
                 <<"#", "#", "#", "#", "#", "#">> >>]

level_4 ==
    [width |-> 9, height |-> 4,
     floor |-> [c \in {<<5, 2>>, <<6, 2>>, <<7, 2>>} |-> IF c[1] = 5 THEN 75 ELSE 150],
     grid |-> << <<"#", "#", "#", "#", "#", "#", "#", "#", "#">>,
                 <<"#", "P", "B", "G", "X", ".", ".", ".", "#">>,
                 <<"#", ".", ".", ".", ".", ".", ".", ".", "#">>,
                 <<"#", "#", "#", "#", "#", "#", "#", "#", "#">> >>]

level_5 ==
    [width |-> 6, height |-> 4, floor |-> [c \in {} |-> 0],
     grid |-> << <<"#", "#", "#", "#", "#", "#">>,
                 <<"#", "P", ".", "D", "X", "#">>,
                 <<"#", ".", ".", ".", "#", "#">>,
                 <<"#", "#", "#", "#", "#", "#">> >>]

LevelOf(num) ==
    CASE num = 1 -> level_1
      [] num = 2 -> level_2
      [] num = 3 -> level_3
      [] num = 4 -> level_4
      [] num = 5 -> level_5
      [] OTHER   -> level_1

is_wall_open_west(level, x, y) ==
    IF y < 0 \/ x >= level.width \/ y >= level.height THEN TRUE
    ELSE IF x < 0 THEN FALSE
    ELSE level.grid[y + 1][x + 1] = "#"

is_wall(level, x, y) ==
    IF x < 0 \/ y < 0 \/ x >= level.width \/ y >= level.height THEN TRUE
    ELSE level.grid[y + 1][x + 1] = "#"

\* `as usize` of a negative f32 saturates to 0.
get_floor_height(level, x, z) ==
    LET gx == IF x < 0 THEN 0 ELSE x \div CELL_SIZE
        gz == IF z < 0 THEN 0 ELSE z \div CELL_SIZE
    IN  IF gz < level.height /\ gx < level.width
        THEN IF <<gx, gz>> \in DOMAIN level.floor THEN level.floor[<<gx, gz>>] ELSE 0
        ELSE 0

check_collision(level, x, z, radius) ==
    LET gx == TruncDiv(x, CELL_SIZE)
        gz == TruncDiv(z, CELL_SIZE)
    IN  \E dy \in -1..1 : \E dx \in -1..1 :
            /\ is_wall(level, gx + dx, gz + dy)
            /\ LET wx == (gx + dx) * CELL_SIZE + CELL_SIZE \div 2
                   wz == (gz + dy) * CELL_SIZE + CELL_SIZE \div 2
                   half == CELL_SIZE \div 2
                   cx == Min(Max(x, wx - half), wx + half)
                   cz == Min(Max(z, wz - half), wz + half)
                   dist_sq == (x - cx) * (x - cx) + (z - cz) * (z - cz)
               IN  dist_sq < radius * radius

\* Per-axis collision response of a moving entity: the X candidate is tried
\* at the old Z, then the Z candidate at the X that resulted.
Slide_all_or_nothing(level, x, z, new_x, new_z, radius) ==
    IF ~check_collision(level, new_x, new_z, radius) THEN <<new_x, new_z>>
    ELSE <<x, z>>

Slide(level, x, z, new_x, new_z, radius) ==
    Then(IF ~check_collision(level, new_x, z, radius) THEN new_x ELSE x, LAMBDA px :
         <<px, IF ~check_collision(level, px, new_z, radius) THEN new_z ELSE z>>)

\* Row-major scan order of the grid, as <<x, y>> with 0-based indices.
CellSeq(level) ==
    [i \in 1..(level.width * level.height) |->
        <<(i - 1) % level.width, (i - 1) \div level.width>>]

CellCentre_corner(n) == n * CELL_SIZE

CellCentre(n) == n * CELL_SIZE + CELL_SIZE \div 2

find_char(level, c) ==
    LET hits == SelectSeq(CellSeq(level), LAMBDA p : level.grid[p[2] + 1][p[1] + 1] = c)
    IN  IF Len(hits) > 0 THEN <<CellCentre(hits[1][1]), CellCentre(hits[1][2])>>
        ELSE <<CELL_SIZE * 2, CELL_SIZE * 2>>

EnemyTypeOf(ch) ==
    CASE ch = "G" -> "Grunt" [] ch = "H" -> "Heavy" [] ch = "D" -> "Demon"

PickupTypeOf(ch) ==
    CASE ch = "+" -> "Health" [] ch = "A" -> "Ammo" [] ch = "S" -> "SpeedBoost"
      [] ch = "B" -> "DamageBoost" [] ch = "R" -> "Armor"

spawn_enemies(level) ==
    LET marks == SelectSeq(CellSeq(level),
                     LAMBDA p : level.grid[p[2] + 1][p[1] + 1] \in {"G", "H", "D"})
    IN  [i \in 1..Len(marks) |->
            NewEnemy(EnemyTypeOf(level.grid[marks[i][2] + 1][marks[i][1] + 1]),
                     CellCentre(marks[i][1]), CellCentre(marks[i][2]))]

spawn_pickups(level) ==
    LET marks == SelectSeq(CellSeq(level),
                     LAMBDA p : level.grid[p[2] + 1][p[1] + 1] \in {"+", "A", "S", "B", "R"})
    IN  [i \in 1..Len(marks) |->
            NewPickup(CellCentre(marks[i][1]), CellCentre(marks[i][2]),
                      PickupTypeOf(level.grid[marks[i][2] + 1][marks[i][1] + 1]))]

\* ------------------------------------------------------------------------
\* World
\* ------------------------------------------------------------------------
Lvl(w) == LevelOf(w.current_level)

NewPlayer(x, z) ==
    [pos |-> Vec3(x, PLAYER_HEIGHT, z), yaw |-> 0, pitch |-> 0,
     health |-> MAX_HEALTH, armor |-> 0, weapons |-> NewWeapons,
     current_weapon |-> 0, score |-> 0, speed_boost |-> 0, damage_boost |-> 0,
     kills |-> 0]

NewWorld ==
    LET p == find_char(level_1, "P")
    IN  [player |-> NewPlayer(p[1], p[2]),
         enemies |-> spawn_enemies(level_1),
         projectiles |-> <<>>,
         particles |-> <<>>,
         pickups |-> spawn_pickups(level_1),
         current_level |-> 1,
         state |-> "Menu",
         combo |-> 0, combo_timer |-> 0, total_kills |-> 0]

load_level_keep_projectiles(w, num) ==
    LET p == find_char(LevelOf(num), "P")
    IN  [w EXCEPT !.current_level = num,
                  !.player.pos = Vec3(p[1], PLAYER_HEIGHT, p[2]),
                  !.player.yaw = 0,
                  !.player.pitch = 0,
                  !.enemies = spawn_enemies(LevelOf(num)),
                  !.pickups = spawn_pickups(LevelOf(num)),
                  !.particles = <<>>]

load_level(w, num) ==
    LET p == find_char(LevelOf(num), "P")
    IN  [w EXCEPT !.current_level = num,
                  !.player.pos = Vec3(p[1], PLAYER_HEIGHT, p[2]),
                  !.player.yaw = 0,
                  !.player.pitch = 0,
                  !.enemies = spawn_enemies(LevelOf(num)),
                  !.pickups = spawn_pickups(LevelOf(num)),
                  !.projectiles = <<>>,
                  !.particles = <<>>]

restart_keep_score(w) ==
    LET w1 == [w EXCEPT !.player.health = MAX_HEALTH,
                        !.player.armor = 0,
                        !.player.kills = 0,
                        !.player.speed_boost = 0,
                        !.player.damage_boost = 0,
                        !.player.weapons = NewWeapons,
                        !.player.current_weapon = 0,
                        !.combo = 0,
                        !.combo_timer = 0,
                        !.total_kills = 0]
    IN  [load_level(w1, 1) EXCEPT !.state = "Playing"]

restart(w) ==
    LET w1 == [w EXCEPT !.player.health = MAX_HEALTH,
                        !.player.armor = 0,
                        !.player.score = 0,
                        !.player.kills = 0,
                        !.player.speed_boost = 0,
                        !.player.damage_boost = 0,
                        !.player.weapons = NewWeapons,
                        !.player.current_weapon = 0,
                        !.combo = 0,
                        !.combo_timer = 0,
                        !.total_kills = 0]
    IN  [load_level(w1, 1) EXCEPT !.state = "Playing"]

alive_enemies(w) == Cardinality({i \in DOMAIN w.enemies : ~w.enemies[i].dead})

\* ------------------------------------------------------------------------
\* Per-frame input snapshot
\* ------------------------------------------------------------------------
\* yaw is counted in quarter turns, pitch indexes PitchTable.
CosQ == <<1000, 0, -1000, 0>>
SinQ == <<0, 1000, 0, -1000>>
PitchTable_unclamped ==
    << [c |-> 1000, s |-> 0], [c |-> 960, s |-> -280], [c |-> 0, s |-> 1000] >>

\* The last entry is the steepest pitch update_player allows, PI/2 - 0.1 upward.
PitchTable ==
    << [c |-> 1000, s |-> 0], [c |-> 960, s |-> -280], [c |-> 100, s |-> 995] >>

forward(pl) ==
    Vec3((CosQ[pl.yaw + 1] * PitchTable[pl.pitch + 1].c) \div 1000,
         PitchTable[pl.pitch + 1].s,
         (SinQ[pl.yaw + 1] * PitchTable[pl.pitch + 1].c) \div 1000)

right(pl) == Vec3(CosQ[((pl.yaw + 1) % 4) + 1], 0, SinQ[((pl.yaw + 1) % 4) + 1])

\* A particle burst is kept as one group: how many particles, and the
\* remaining life (ticks) of its longest-lived particle.
Burst(count, life) == [count |-> count, life |-> life]

spawn_particles(w, count, rnd) ==
    [w EXCEPT !.particles = Append(@, Burst(count, 12 + (18 * rnd.life_pct) \div 100))]

ScaleDir(v) ==
    LET len == Sqrt(LenSq(v))
    IN  Vec3(TruncDiv(v.x * 1000, len), TruncDiv(v.y * 1000, len), TruncDiv(v.z * 1000, len))

PointAt(start, dir, dist) ==
    Vec3(start.x + TruncDiv(dir.x * dist, 1000),
         start.y + TruncDiv(dir.y * dist, 1000),
         start.z + TruncDiv(dir.z * dist, 1000))

\* First living enemy, in collection order, whose hit sphere holds pos; 0 if none.
RECURSIVE FirstEnemyAt_last_in_order(_, _, _)
FirstEnemyAt_last_in_order(enemies, pos, i) ==
    IF i > Len(enemies) THEN 0
    ELSE Then(FirstEnemyAt_last_in_order(enemies, pos, i + 1), LAMBDA later :
         LET e == enemies[i]
             hit_r == (EnemyTable[e.etype].size * 8) \div 10
         IN  IF later > 0 THEN later
             ELSE IF ~e.dead /\ LenSq(VSub(pos, e.pos)) < hit_r * hit_r THEN i
             ELSE 0)

RECURSIVE FirstEnemyAt(_, _, _)
FirstEnemyAt(enemies, pos, i) ==
    IF i > Len(enemies) THEN 0
    ELSE LET e == enemies[i]
             hit_r == (EnemyTable[e.etype].size * 8) \div 10
         IN  IF ~e.dead /\ LenSq(VSub(pos, e.pos)) < hit_r * hit_r THEN i
             ELSE FirstEnemyAt(enemies, pos, i + 1)

RAY_STEP == 30
RAY_MAX == 100 * U

RAY_SAMPLES == (RAY_MAX + RAY_STEP - 1) \div RAY_STEP

\* What sample k of the marching loop finds: a wall (checked first), else the
\* first living enemy whose hit sphere holds the sample point.
Sample(w, start, dir, k) ==
    Then(PointAt(start, dir, k * RAY_STEP), LAMBDA pos :
        IF check_collision(Lvl(w), pos.x, pos.z, 10)
        THEN [wall |-> TRUE, idx |-> 0]
        ELSE [wall |-> FALSE, idx |-> FirstEnemyAt(w.enemies, pos, 1)])

\* First k in lo..hi-1 whose sample stops the march (wall or enemy); -1 if none.
\* The samples are visited in increasing order, as `dist += step` does.
RECURSIVE FirstStopAt(_, _, _, _, _)
FirstStopAt(w, start, dir, lo, hi) ==
    IF hi - lo <= 1
    THEN Then(Sample(w, start, dir, lo), LAMBDA r :
           IF hi > lo /\ (r.wall \/ r.idx > 0) THEN lo ELSE -1)
    ELSE Then((lo + hi) \div 2, LAMBDA mid :
         Then(FirstStopAt(w, start, dir, lo, mid), LAMBDA l :
           IF l >= 0 THEN l ELSE FirstStopAt(w, start, dir, mid, hi)))

\* The marching loop of raycast_shot: [wall, idx] of the sample that stops it.
March(w, start, dir) ==
    Then(FirstStopAt(w, start, dir, 0, RAY_SAMPLES), LAMBDA k :
      IF k < 0 THEN [wall |-> FALSE, idx |-> 0] ELSE Sample(w, start, dir, k))

\* The kill branch of raycast_shot: the combo grows before the bonus is taken.
Kill_bonus_before_increment(w, idx, t) ==
    [w EXCEPT !.enemies[idx].dead = TRUE,
              !.enemies[idx].death_time = t,
              !.combo = @ + 1,
              !.combo_timer = 2 * TicksPerSec,
              !.player.score = @ + EnemyTable[w.enemies[idx].etype].points
                                 + w.combo * 50,
              !.player.kills = @ + 1,
              !.total_kills = @ + 1]

Kill(w, idx, t) ==
    [w EXCEPT !.enemies[idx].dead = TRUE,
              !.enemies[idx].death_time = t,
              !.combo = @ + 1,
              !.combo_timer = 2 * TicksPerSec,
              !.player.score = @ + EnemyTable[w.enemies[idx].etype].points
                                 + (w.combo + 1) * 50,
              !.player.kills = @ + 1,
              !.total_kills = @ + 1]

raycast_shot(w, dir, damage, t, rnd) ==
    Then(March(w, w.player.pos, dir), LAMBDA m :
    Then(IF m.wall THEN spawn_particles(w, 8, rnd) ELSE w, LAMBDA w0 :
        IF m.idx = 0 THEN w0
        ELSE LET h == w0.enemies[m.idx].health - damage
             IN  Then(spawn_particles([w0 EXCEPT !.enemies[m.idx].health = h], 10, rnd),
                      LAMBDA w1 :
                 IF h <= 0 THEN spawn_particles(Kill(w1, m.idx, t), 25, rnd)
                 ELSE w1)))

PROJ_SPEED == 25 * U

RECURSIVE Pellets_plain_projectile(_, _, _, _, _, _, _)
Pellets_plain_projectile(w, i, n, damage, explosive, t, rnd) ==
    IF i > n THEN w
    ELSE LET spread == WeaponTable[w.player.current_weapon + 1].spread
             sx == TruncDiv(spread * rnd.offs[i][1], 1000)
             sy == TruncDiv(spread * rnd.offs[i][2], 1000)
             f == forward(w.player)
             r == right(w.player)
         IN  Then(ScaleDir(Vec3(f.x + TruncDiv(r.x * sx, 1000),
                                f.y + sy,
                                f.z + TruncDiv(r.z * sx, 1000))), LAMBDA direction :
             Then(IF explosive
                  THEN [w EXCEPT !.projectiles =
                           Append(@, [pos |-> w.player.pos,
                                      vel |-> Vec3(TruncDiv(direction.x * PROJ_SPEED, 1000),
                                                   TruncDiv(direction.y * PROJ_SPEED, 1000),
                                                   TruncDiv(direction.z * PROJ_SPEED, 1000)),
                                      damage |-> damage, explosive |-> FALSE])]
                  ELSE raycast_shot(w, direction, damage, t, rnd),
                  LAMBDA v : Pellets_plain_projectile(v, i + 1, n, damage, explosive, t, rnd)))

\* The pellet loop of try_shoot, pellets i..n.
RECURSIVE Pellets(_, _, _, _, _, _, _)
Pellets(w, i, n, damage, explosive, t, rnd) ==
    IF i > n THEN w
    ELSE LET spread == WeaponTable[w.player.current_weapon + 1].spread
             sx == TruncDiv(spread * rnd.offs[i][1], 1000)
             sy == TruncDiv(spread * rnd.offs[i][2], 1000)
             f == forward(w.player)
             r == right(w.player)
         IN  Then(ScaleDir(Vec3(f.x + TruncDiv(r.x * sx, 1000),
                                f.y + sy,
                                f.z + TruncDiv(r.z * sx, 1000))), LAMBDA direction :
             Then(IF explosive
                  THEN [w EXCEPT !.projectiles =
                           Append(@, [pos |-> w.player.pos,
                                      vel |-> Vec3(TruncDiv(direction.x * PROJ_SPEED, 1000),
                                                   TruncDiv(direction.y * PROJ_SPEED, 1000),
                                                   TruncDiv(direction.z * PROJ_SPEED, 1000)),
                                      damage |-> damage, explosive |-> TRUE])]
                  ELSE raycast_shot(w, direction, damage, t, rnd),
                  LAMBDA v : Pellets(v, i + 1, n, damage, explosive, t, rnd)))

try_shoot(w, t, rnd) ==
    LET wi == w.player.current_weapon + 1
        weapon == w.player.weapons[wi]
    IN  IF ~can_fire(wi, weapon, t) THEN w
        ELSE Then([w EXCEPT !.player.weapons[wi] = fire(weapon, t)], LAMBDA w1 :
             Then(IF w.player.damage_boost > 0
                  THEN WeaponTable[wi].damage * 2 ELSE WeaponTable[wi].damage,
                  LAMBDA damage :
               Pellets(w1, 1, WeaponTable[wi].pellets, damage,
                       WeaponTable[wi].explosive, t, rnd)))

\* ------------------------------------------------------------------------
\* update_player
\* ------------------------------------------------------------------------
\* inp.yaw / inp.pitch: orientation after this frame's look input;
\* inp.fwd / inp.strafe in -1..1: W/S and D/A (or the left stick);
\* inp.sel: weapon selection, <<"none">>, <<"key", n>>, <<"next">>, <<"prev">>.
update_player(w, dt, t, inp) ==
    Then([w EXCEPT !.player.yaw = inp.yaw, !.player.pitch = inp.pitch], LAMBDA w1 :
    LET fwd2 == Vec3(CosQ[inp.yaw + 1], 0, SinQ[inp.yaw + 1])
        r == right(w1.player)
        move_dir == Vec3(fwd2.x * inp.fwd + r.x * inp.strafe, 0,
                         fwd2.z * inp.fwd + r.z * inp.strafe)
        s1 == IF inp.sprint THEN (PLAYER_SPEED * PLAYER_SPRINT_NUM) \div 10
              ELSE PLAYER_SPEED
        speed == IF w1.player.speed_boost > 0 THEN (s1 * 15) \div 10 ELSE s1
    IN
    Then(IF LenSq(move_dir) > 0
         THEN Then(ScaleDir(move_dir), LAMBDA md :
              Then(w1.player.pos.x + TruncDiv(md.x * speed * dt, 1000 * TicksPerSec),
                   LAMBDA new_x :
              Then(w1.player.pos.z + TruncDiv(md.z * speed * dt, 1000 * TicksPerSec),
                   LAMBDA new_z :
              Then(Slide(Lvl(w1), w1.player.pos.x, w1.player.pos.z, new_x, new_z,
                         PLAYER_RADIUS), LAMBDA p :
                [w1 EXCEPT !.player.pos.x = p[1], !.player.pos.z = p[2]]))))
         ELSE w1, LAMBDA w2 :
    LET target_height == get_floor_height(Lvl(w2), w2.player.pos.x, w2.player.pos.z)
                           + PLAYER_HEIGHT
        cw == w2.player.current_weapon
    IN
    Then([w2 EXCEPT !.player.pos.y =
                      @ + TruncDiv((target_height - @) * 10 * dt, TicksPerSec),
                    !.player.current_weapon =
                      CASE inp.sel[1] = "key"  -> inp.sel[2]
                        [] inp.sel[1] = "next" -> (cw + 1) % 4
                        [] inp.sel[1] = "prev" -> (cw + 3) % 4
                        [] OTHER -> cw], LAMBDA w4 :
    IF inp.shoot THEN try_shoot(w4, t, inp.rnd) ELSE w4)))

\* ------------------------------------------------------------------------
\* update_enemies
\* ------------------------------------------------------------------------
\* The armour rule of an enemy attack: armour takes the blow first and is 70%
\* effective.
Attack_armor_fully_effective(pl, damage) ==
    LET armor_absorb == IF pl.armor > 0 THEN Min(damage, pl.armor) ELSE 0
        actual_damage == damage - armor_absorb
    IN  [pl EXCEPT !.armor = @ - armor_absorb,
                   !.health = Max(@ - actual_damage, 0)]

Attack_no_floor(pl, damage) ==
    LET armor_absorb == IF pl.armor > 0 THEN Min(damage, pl.armor) ELSE 0
        actual_damage == damage - (armor_absorb * 7) \div 10
    IN  [pl EXCEPT !.armor = @ - armor_absorb,
                   !.health = @ - actual_damage]

Attack(pl, damage) ==
    LET armor_absorb == IF pl.armor > 0 THEN Min(damage, pl.armor) ELSE 0
        actual_damage == damage - (armor_absorb * 7) \div 10
    IN  [pl EXCEPT !.armor = @ - armor_absorb,
                   !.health = Max(@ - actual_damage, 0)]

EnemyStep_reach_after_move(w, i, dt, t) ==
    LET e == w.enemies[i]
        et == EnemyTable[e.etype]
        to_player == Vec3(w.player.pos.x - e.pos.x, 0, w.player.pos.z - e.pos.z)
        dist_sq == LenSq(to_player)
    IN
    Then(IF dist_sq > 150 * 150
         THEN Then(ScaleDir(to_player), LAMBDA dir :
              Then(e.pos.x + TruncDiv(dir.x * et.speed * dt, 1000 * TicksPerSec),
                   LAMBDA new_x :
              Then(e.pos.z + TruncDiv(dir.z * et.speed * dt, 1000 * TicksPerSec),
                   LAMBDA new_z :
              Then(Slide(Lvl(w), e.pos.x, e.pos.z, new_x, new_z, 50), LAMBDA p :
                [w EXCEPT !.enemies[i].pos =
                    Vec3(p[1], get_floor_height(Lvl(w), p[1], p[2]) + et.size, p[2])]))))
         ELSE w, LAMBDA w1 :
    IF LenSq(Vec3(w1.player.pos.x - w1.enemies[i].pos.x, 0,
                  w1.player.pos.z - w1.enemies[i].pos.z)) < 200 * 200
       /\ t - e.last_attack > et.attack_cd
    THEN [w1 EXCEPT !.enemies[i].last_attack = t,
                    !.player = Attack(@, et.damage)]
    ELSE w1)

EnemyStep(w, i, dt, t) ==
    LET e == w.enemies[i]
        et == EnemyTable[e.etype]
        to_player == Vec3(w.player.pos.x - e.pos.x, 0, w.player.pos.z - e.pos.z)
        dist_sq == LenSq(to_player)
    IN
    Then(IF dist_sq > 150 * 150
         THEN Then(ScaleDir(to_player), LAMBDA dir :
              Then(e.pos.x + TruncDiv(dir.x * et.speed * dt, 1000 * TicksPerSec),
                   LAMBDA new_x :
              Then(e.pos.z + TruncDiv(dir.z * et.speed * dt, 1000 * TicksPerSec),
                   LAMBDA new_z :
              Then(Slide(Lvl(w), e.pos.x, e.pos.z, new_x, new_z, 50), LAMBDA p :
                [w EXCEPT !.enemies[i].pos =
                    Vec3(p[1], get_floor_height(Lvl(w), p[1], p[2]) + et.size, p[2])]))))
         ELSE w, LAMBDA w1 :
    IF dist_sq < 200 * 200 /\ t - e.last_attack > et.attack_cd
    THEN [w1 EXCEPT !.enemies[i].last_attack = t,
                    !.player = Attack(@, et.damage)]
    ELSE w1)

RECURSIVE EnemyLoop(_, _, _, _)
EnemyLoop(w, i, dt, t) ==
    IF i > Len(w.enemies) THEN w
    ELSE IF w.enemies[i].dead THEN EnemyLoop(w, i + 1, dt, t)
    ELSE Then(EnemyStep(w, i, dt, t), LAMBDA v : EnemyLoop(v, i + 1, dt, t))

update_enemies(w, dt, t) == EnemyLoop(w, 1, dt, t)

\* ------------------------------------------------------------------------
\* update_projectiles / explode
\* ------------------------------------------------------------------------
BLAST_RADIUS == 10 * U

RECURSIVE ExplodeEnemies_with_combo(_, _, _, _, _)
ExplodeEnemies_with_combo(w, i, pos, damage, t) ==
    IF i > Len(w.enemies) THEN w
    ELSE LET e == w.enemies[i]
             d_sq == LenSq(VSub(pos, e.pos))
         IN  IF e.dead \/ d_sq >= BLAST_RADIUS * BLAST_RADIUS
             THEN ExplodeEnemies_with_combo(w, i + 1, pos, damage, t)
             ELSE LET h == e.health
                           - TruncDiv(damage * (BLAST_RADIUS - Sqrt(d_sq)), BLAST_RADIUS)
                      w1 == IF h <= 0
                            THEN [w EXCEPT !.enemies[i].health = h,
                                           !.enemies[i].dead = TRUE,
                                           !.enemies[i].death_time = t,
                                           !.combo = @ + 1,
                                           !.player.score = @ + EnemyTable[e.etype].points
                                                              + (w.combo + 1) * 50]
                            ELSE [w EXCEPT !.enemies[i].health = h]
                  IN  Then(w1, LAMBDA v : ExplodeEnemies_with_combo(v, i + 1, pos, damage, t))

RECURSIVE ExplodeEnemies(_, _, _, _, _)
ExplodeEnemies(w, i, pos, damage, t) ==
    IF i > Len(w.enemies) THEN w
    ELSE LET e == w.enemies[i]
             d_sq == LenSq(VSub(pos, e.pos))
         IN  IF e.dead \/ d_sq >= BLAST_RADIUS * BLAST_RADIUS
             THEN ExplodeEnemies(w, i + 1, pos, damage, t)
             ELSE LET h == e.health
                           - TruncDiv(damage * (BLAST_RADIUS - Sqrt(d_sq)), BLAST_RADIUS)
                      w1 == IF h <= 0
                            THEN [w EXCEPT !.enemies[i].health = h,
                                           !.enemies[i].dead = TRUE,
                                           !.enemies[i].death_time = t,
                                           !.player.score = @ + EnemyTable[e.etype].points]
                            ELSE [w EXCEPT !.enemies[i].health = h]
                  IN  Then(w1, LAMBDA v : ExplodeEnemies(v, i + 1, pos, damage, t))

explode_full_self_damage(w, pos, damage, t, rnd) ==
    LET w0 == [w EXCEPT !.particles = @ \o
                 << Burst(120, 30 + (78 * rnd.life_pct) \div 100),
                    Burst(40, 60 + (90 * rnd.life_pct) \div 100),
                    Burst(20, 6 + (18 * rnd.life_pct) \div 100) >>]
        pd_sq == LenSq(VSub(pos, w.player.pos))
    IN  Then(ExplodeEnemies(w0, 1, pos, damage, t), LAMBDA w1 :
          IF pd_sq < BLAST_RADIUS * BLAST_RADIUS
          THEN [w1 EXCEPT !.player.health =
                   Max(@ - TruncDiv(damage * (BLAST_RADIUS - Sqrt(pd_sq)),
                                    BLAST_RADIUS), 0)]
          ELSE w1)

explode(w, pos, damage, t, rnd) ==
    LET w0 == [w EXCEPT !.particles = @ \o
                 << Burst(120, 30 + (78 * rnd.life_pct) \div 100),
                    Burst(40, 60 + (90 * rnd.life_pct) \div 100),
                    Burst(20, 6 + (18 * rnd.life_pct) \div 100) >>]
        pd_sq == LenSq(VSub(pos, w.player.pos))
    IN  Then(ExplodeEnemies(w0, 1, pos, damage, t), LAMBDA w1 :
          IF pd_sq < BLAST_RADIUS * BLAST_RADIUS
          THEN [w1 EXCEPT !.player.health =
                   Max(@ - TruncDiv(damage * (BLAST_RADIUS - Sqrt(pd_sq)) * 3,
                                    BLAST_RADIUS * 10), 0)]
          ELSE w1)

RECURSIVE FirstEnemyNear_dead_or_alive(_, _, _)
FirstEnemyNear_dead_or_alive(enemies, pos, i) ==
    IF i > Len(enemies) THEN 0
    ELSE IF LenSq(VSub(pos, enemies[i].pos)) < U * U THEN i
    ELSE FirstEnemyNear_dead_or_alive(enemies, pos, i + 1)

\* First living enemy within 1.0 of pos, in collection order; 0 if none.
RECURSIVE FirstEnemyNear(_, _, _)
FirstEnemyNear(enemies, pos, i) ==
    IF i > Len(enemies) THEN 0
    ELSE IF ~enemies[i].dead /\ LenSq(VSub(pos, enemies[i].pos)) < U * U THEN i
    ELSE FirstEnemyNear(enemies, pos, i + 1)

RECURSIVE ProjPass_explode_at_once(_, _, _, _)
ProjPass_explode_at_once(acc, projs, k, dt) ==
    IF k > Len(projs) THEN acc
    ELSE Then([projs[k] EXCEPT
                  !.pos = Vec3(@.x + TruncDiv(projs[k].vel.x * dt, TicksPerSec),
                               @.y + TruncDiv(projs[k].vel.y * dt, TicksPerSec),
                               @.z + TruncDiv(projs[k].vel.z * dt, TicksPerSec))],
              LAMBDA p :
         LET hit == FirstEnemyNear(acc.w.enemies, p.pos, 1)
             acc1 == IF check_collision(Lvl(acc.w), p.pos.x, p.pos.z, 20) \/ hit > 0
                     THEN [acc EXCEPT !.w = explode(@, p.pos, p.damage, 0,
                                                    [offs |-> <<>>, life_pct |-> 100])]
                     ELSE [acc EXCEPT !.kept = Append(@, p)]
         IN  Then(acc1, LAMBDA v : ProjPass_explode_at_once(v, projs, k + 1, dt)))

\* The retain_mut pass: acc = [w, kept, explosions].
RECURSIVE ProjPass(_, _, _, _)
ProjPass(acc, projs, k, dt) ==
    IF k > Len(projs) THEN acc
    ELSE Then([projs[k] EXCEPT
                  !.pos = Vec3(@.x + TruncDiv(projs[k].vel.x * dt, TicksPerSec),
                               @.y + TruncDiv(projs[k].vel.y * dt, TicksPerSec),
                               @.z + TruncDiv(projs[k].vel.z * dt, TicksPerSec))],
              LAMBDA p :
         LET boom == IF p.explosive THEN Append(acc.explosions, <<p.pos, p.damage>>)
                     ELSE acc.explosions
             hit == FirstEnemyNear(acc.w.enemies, p.pos, 1)
             acc1 == IF check_collision(Lvl(acc.w), p.pos.x, p.pos.z, 20)
                     THEN [acc EXCEPT !.explosions = boom]
                     ELSE IF hit > 0
                     THEN [acc EXCEPT !.explosions = boom,
                                      !.w.enemies[hit].health =
                                          IF p.explosive THEN @ ELSE @ - p.damage]
                     ELSE [acc EXCEPT !.kept = Append(@, p)]
         IN  Then(acc1, LAMBDA v : ProjPass(v, projs, k + 1, dt)))

RECURSIVE ExplodeAll(_, _, _, _, _)
ExplodeAll(w, explosions, k, t, rnd) ==
    IF k > Len(explosions) THEN w
    ELSE Then(explode(w, explosions[k][1], explosions[k][2], t, rnd),
              LAMBDA v : ExplodeAll(v, explosions, k + 1, t, rnd))

update_projectiles(w, dt, t, rnd) ==
    Then(ProjPass([w |-> w, kept |-> <<>>, explosions |-> <<>>], w.projectiles, 1, dt),
         LAMBDA acc : ExplodeAll([acc.w EXCEPT !.projectiles = acc.kept],
                                 acc.explosions, 1, t, rnd))

\* ------------------------------------------------------------------------
\* update_particles / update_pickups / check_victory
\* ------------------------------------------------------------------------
update_particles(w, dt) ==
    LET aged == [k \in DOMAIN w.particles |-> [w.particles[k] EXCEPT !.life = @ - dt]]
    IN  [w EXCEPT !.particles = SelectSeq(aged, LAMBDA g : g.life > 0)]

ApplyPickup_uncapped(w, k) ==
    LET ptype == w.pickups[k].pickup_type
        w1 == [w EXCEPT !.pickups[k].collected = TRUE]
        w2 == CASE ptype = "Health" ->
                     [w1 EXCEPT !.player.health = @ + 25 * HP]
                [] ptype = "Ammo" ->
                     [w1 EXCEPT !.player.weapons =
                         [i \in 1..4 |->
                            IF WeaponTable[i].max_ammo > 0
                            THEN [@[i] EXCEPT !.ammo =
                                     Min(@ + WeaponTable[i].max_ammo \div 2,
                                         WeaponTable[i].max_ammo)]
                            ELSE @[i]]]
                [] ptype = "SpeedBoost" ->
                     [w1 EXCEPT !.player.speed_boost = 10 * TicksPerSec]
                [] ptype = "DamageBoost" ->
                     [w1 EXCEPT !.player.damage_boost = 10 * TicksPerSec]
                [] ptype = "Armor" ->
                     [w1 EXCEPT !.player.armor = Min(@ + 50 * HP, 100 * HP)]
    IN  [w2 EXCEPT !.player.score = @ + 50]

ApplyPickup(w, k) ==
    LET ptype == w.pickups[k].pickup_type
        w1 == [w EXCEPT !.pickups[k].collected = TRUE]
        w2 == CASE ptype = "Health" ->
                     [w1 EXCEPT !.player.health = Min(@ + 25 * HP, MAX_HEALTH)]
                [] ptype = "Ammo" ->
                     [w1 EXCEPT !.player.weapons =
                         [i \in 1..4 |->
                            IF WeaponTable[i].max_ammo > 0
                            THEN [@[i] EXCEPT !.ammo =
                                     Min(@ + WeaponTable[i].max_ammo \div 2,
                                         WeaponTable[i].max_ammo)]
                            ELSE @[i]]]
                [] ptype = "SpeedBoost" ->
                     [w1 EXCEPT !.player.speed_boost = 10 * TicksPerSec]
                [] ptype = "DamageBoost" ->
                     [w1 EXCEPT !.player.damage_boost = 10 * TicksPerSec]
                [] ptype = "Armor" ->
                     [w1 EXCEPT !.player.armor = Min(@ + 50 * HP, 100 * HP)]
    IN  [w2 EXCEPT !.player.score = @ + 50]

InPickupRange(w, k) ==
    LET dx == w.player.pos.x - w.pickups[k].pos.x
        dz == w.player.pos.z - w.pickups[k].pos.z
    IN  dx * dx + dz * dz < 150 * 150

RECURSIVE PickupLoop_again(_, _)
PickupLoop_again(acc, k) ==
    IF k > Len(acc.w.pickups) THEN acc
    ELSE IF ~InPickupRange(acc.w, k)
    THEN PickupLoop_again(acc, k + 1)
    ELSE Then([w |-> ApplyPickup(acc.w, k), n |-> acc.n + 1],
              LAMBDA v : PickupLoop_again(v, k + 1))

\* acc = [w, n]: the world and the number of pickups collected in this pass.
RECURSIVE PickupLoop(_, _)
PickupLoop(acc, k) ==
    IF k > Len(acc.w.pickups) THEN acc
    ELSE IF acc.w.pickups[k].collected \/ ~InPickupRange(acc.w, k)
    THEN PickupLoop(acc, k + 1)
    ELSE Then([w |-> ApplyPickup(acc.w, k), n |-> acc.n + 1],
              LAMBDA v : PickupLoop(v, k + 1))

RECURSIVE SpawnBursts(_, _, _)
SpawnBursts(w, n, rnd) ==
    IF n = 0 THEN w ELSE SpawnBursts(spawn_particles(w, 15, rnd), n - 1, rnd)

update_pickups(w, dt, rnd) ==
    Then([w |-> [w EXCEPT !.player.speed_boost = Max(@ - dt, 0),
                          !.player.damage_boost = Max(@ - dt, 0)],
          n |-> 0], LAMBDA start :
    Then(PickupLoop(start, 1), LAMBDA acc : SpawnBursts(acc.w, acc.n, rnd)))

NearExitWithin1(w) ==
    LET e == find_char(Lvl(w), "X")
        dx == w.player.pos.x - e[1]
        dz == w.player.pos.z - e[2]
    IN  dx * dx + dz * dz < 100 * 100

NearExit(w) ==
    LET e == find_char(Lvl(w), "X")
        dx == w.player.pos.x - e[1]
        dz == w.player.pos.z - e[2]
    IN  dx * dx + dz * dz < 200 * 200

check_victory_no_release(w) ==
    IF alive_enemies(w) = 0 /\ NearExit(w)
    THEN [w |-> [w EXCEPT !.state = "Victory"], calls |-> <<>>]
    ELSE [w |-> w, calls |-> <<>>]

check_victory_either(w) ==
    IF alive_enemies(w) = 0 \/ NearExit(w)
    THEN [w |-> [w EXCEPT !.state = "Victory"], calls |-> <<FALSE>>]
    ELSE [w |-> w, calls |-> <<>>]

\* Result of check_victory: the world and the cursor calls it made.
check_victory(w) ==
    IF alive_enemies(w) = 0 /\ NearExit(w)
    THEN [w |-> [w EXCEPT !.state = "Victory"], calls |-> <<FALSE>>]
    ELSE [w |-> w, calls |-> <<>>]

\* ------------------------------------------------------------------------
\* update
\* ------------------------------------------------------------------------
\* inp.enter: Enter, Space or gamepad A just pressed; inp.escape: Escape;
\* inp.start_just / inp.b_just: gamepad Start / B just pressed.
\* Each arm yields the world and the arguments of the set_cursor_grab calls
\* it made, in order (each is paired with show_mouse of the opposite value).
MenuArm(w, inp) ==
    IF inp.enter \/ inp.start_just
    THEN [w |-> restart(w), calls |-> <<TRUE>>]
    ELSE [w |-> w, calls |-> <<>>]

PlayingArm_pause_after_death(w, dt, t, inp) ==
    Then(update_player(w, dt, t, inp), LAMBDA w1 :
    Then(update_enemies(w1, dt, t), LAMBDA w2 :
    Then(update_projectiles(w2, dt, t, inp.rnd), LAMBDA w3 :
    Then(update_particles(w3, dt), LAMBDA w4 :
    Then(update_pickups(w4, dt, inp.rnd), LAMBDA w5 :
    Then(check_victory(w5), LAMBDA cv :
      LET ct == cv.w.combo_timer - dt
          w6 == [cv.w EXCEPT !.combo_timer = ct, !.combo = IF ct <= 0 THEN 0 ELSE @]
          dead == w6.player.health <= 0
          w7 == IF dead THEN [w6 EXCEPT !.state = "Dead"] ELSE w6
          c7 == IF dead THEN Append(cv.calls, FALSE) ELSE cv.calls
          paused == inp.escape \/ inp.start_just
      IN  [w |-> IF paused THEN [w7 EXCEPT !.state = "Paused"] ELSE w7,
           calls |-> IF paused THEN Append(c7, FALSE) ELSE c7,
           zeroed |-> w2.player.health <= 0 \/ w3.player.health <= 0]))))))

\* Also yields whether the player's health was 0 right after update_enemies
\* or update_projectiles.
PlayingArm(w, dt, t, inp) ==
    Then(update_player(w, dt, t, inp), LAMBDA w1 :
    Then(update_enemies(w1, dt, t), LAMBDA w2 :
    Then(update_projectiles(w2, dt, t, inp.rnd), LAMBDA w3 :
    Then(update_particles(w3, dt), LAMBDA w4 :
    Then(update_pickups(w4, dt, inp.rnd), LAMBDA w5 :
    Then(check_victory(w5), LAMBDA cv :
      LET ct == cv.w.combo_timer - dt
          w6 == [cv.w EXCEPT !.combo_timer = ct, !.combo = IF ct <= 0 THEN 0 ELSE @]
          paused == inp.escape \/ inp.start_just
          w7 == IF paused THEN [w6 EXCEPT !.state = "Paused"] ELSE w6
          c7 == IF paused THEN Append(cv.calls, FALSE) ELSE cv.calls
          dead == w7.player.health <= 0
      IN  [w |-> IF dead THEN [w7 EXCEPT !.state = "Dead"] ELSE w7,
           calls |-> IF dead THEN Append(c7, FALSE) ELSE c7,
           zeroed |-> w2.player.health <= 0 \/ w3.player.health <= 0]))))))

PausedArm_any_key(w, inp) ==
    IF inp.escape \/ inp.start_just \/ inp.b_just \/ inp.enter
    THEN [w |-> [w EXCEPT !.state = "Playing"], calls |-> <<TRUE>>]
    ELSE [w |-> w, calls |-> <<>>]

PausedArm(w, inp) ==
    IF inp.escape \/ inp.start_just \/ inp.b_just
    THEN [w |-> [w EXCEPT !.state = "Playing"], calls |-> <<TRUE>>]
    ELSE [w |-> w, calls |-> <<>>]

EndScreenArm_through_5(w, inp) ==
    IF inp.enter \/ inp.start_just
    THEN IF w.state = "Victory" /\ w.current_level <= 5
         THEN [w |-> [load_level([w EXCEPT !.player.kills = 0], w.current_level + 1)
                        EXCEPT !.state = "Playing"],
               calls |-> <<TRUE>>]
         ELSE [w |-> [w EXCEPT !.state = "Menu"], calls |-> <<>>]
    ELSE [w |-> w, calls |-> <<>>]

EndScreenArm(w, inp) ==
    IF inp.enter \/ inp.start_just
    THEN IF w.state = "Victory" /\ w.current_level < 5
         THEN [w |-> [load_level([w EXCEPT !.player.kills = 0], w.current_level + 1)
                        EXCEPT !.state = "Playing"],
               calls |-> <<TRUE>>]
         ELSE [w |-> [w EXCEPT !.state = "Menu"], calls |-> <<>>]
    ELSE [w |-> w, calls |-> <<>>]

update(w, dt, t, inp) ==
    LET Quiet(r) == [w |-> r.w, calls |-> r.calls, zeroed |-> FALSE]
    IN  CASE w.state = "Menu" -> Quiet(MenuArm(w, inp))
          [] w.state = "Playing" -> PlayingArm(w, dt, t, inp)
          [] w.state = "Paused" -> Quiet(PausedArm(w, inp))
          [] w.state \in {"Dead", "Victory"} -> Quiet(EndScreenArm(w, inp))

\* ------------------------------------------------------------------------
\* GamepadState, of which update reads the Start and B buttons: the held
\* flags and the "just pressed" flags.  Events are <<type, button>>.
\* ------------------------------------------------------------------------
GamepadDefault ==
    [start_pressed |-> FALSE, b_pressed |-> FALSE,
     start_just_pressed |-> FALSE, b_just_pressed |-> FALSE]

clear_just_pressed_keeps_start(g) == [g EXCEPT !.b_just_pressed = FALSE]

clear_just_pressed(g) ==
    [g EXCEPT !.start_just_pressed = FALSE, !.b_just_pressed = FALSE]

\* One arm of the event match of main's polling loop.
OnEvent(g, ev) ==
    CASE ev = <<"ButtonPressed", "Start">> ->
           [g EXCEPT !.start_pressed = TRUE, !.start_just_pressed = TRUE]
      [] ev = <<"ButtonPressed", "East">> ->
           [g EXCEPT !.b_pressed = TRUE, !.b_just_pressed = TRUE]
      [] ev = <<"ButtonReleased", "Start">> -> [g EXCEPT !.start_pressed = FALSE]
      [] ev = <<"ButtonReleased", "East">> -> [g EXCEPT !.b_pressed = FALSE]
      [] OTHER -> g

\* The `while let Some(event) = gilrs.next_event()' loop over events k, k+1, ...
RECURSIVE PollFrom(_, _, _)
PollFrom(g, events, k) ==
    IF k > Len(events) THEN g ELSE PollFrom(OnEvent(g, events[k]), events, k + 1)

\* The gamepad as update sees it in a frame that polls these events.
Poll(g, events) == PollFrom(clear_just_pressed(g), events, 1)

\* ------------------------------------------------------------------------
\* One frame of main's loop: get_frame_time, poll input, update (render only
\* reads).  A frame state is the world with what surrounds it: the clock,
\* the pointer, a record of the last frame (the world and the shot times
\* before it, its frame time and inputs, what update did), and the times of
\* the last honoured shot per weapon slot (ever: since program start; run:
\* since restart(); -1: none).
\* ------------------------------------------------------------------------
NoShots == [i \in 1..4 |-> -1]

\* clock.playing: the frame time spent in Playing so far; clock.kill: its value
\* in the frame of the last hit-scan kill of the run, -1 before the first.
NoKill == [playing |-> 0, kill |-> -1]

Boot ==
    [world |-> NewWorld, time |-> 0, cursor_grab |-> FALSE, mouse_shown |-> TRUE,
     gamepad |-> GamepadDefault,
     last_frame |-> [before |-> NewWorld, dt |-> 0, gamepad |-> GamepadDefault,
                     events |-> <<>>, enter |-> FALSE, escape |-> FALSE, fwd |-> 0,
                     confirm |-> FALSE, pause |-> FALSE,
                     resume |-> FALSE, shoot |-> FALSE, calls |-> <<>>,
                     zeroed |-> FALSE, shots |-> [ever |-> NoShots, run |-> NoShots],
                     clock |-> NoKill],
     shots |-> [ever |-> NoShots, run |-> NoShots],
     clock |-> NoKill]

Step(st, dt, keys) ==
    LET t == st.time + dt
        g == Poll(st.gamepad, keys.events)
        inp == [keys EXCEPT !.start_just = g.start_just_pressed,
                            !.b_just = g.b_just_pressed,
                            !.sprint = @ \/ g.b_pressed]
    IN  Then(update(st.world, dt, t, inp), LAMBDA r :
          LET n == Len(r.calls)
              playing == st.world.state = "Playing"
              restarted == st.world.state = "Menu" /\ r.w.state = "Playing"
              Log(old) == [i \in 1..4 |->
                             IF playing /\ r.w.player.weapons[i].last_shot = t THEN t
                             ELSE old[i]]
              now == IF playing THEN st.clock.playing + dt ELSE st.clock.playing
          IN  [world |-> r.w,
               time |-> t,
               cursor_grab |-> IF n > 0 THEN r.calls[n] ELSE st.cursor_grab,
               mouse_shown |-> IF n > 0 THEN ~r.calls[n] ELSE st.mouse_shown,
               gamepad |-> g,
               last_frame |-> [before |-> st.world,
                               dt |-> dt,
                               gamepad |-> st.gamepad,
                               events |-> keys.events,
                               enter |-> inp.enter,
                               escape |-> inp.escape,
                               fwd |-> inp.fwd,
                               confirm |-> inp.enter \/ inp.start_just,
                               pause |-> inp.escape \/ inp.start_just,
                               resume |-> inp.escape \/ inp.start_just \/ inp.b_just,
                               shoot |-> inp.shoot,
                               calls |-> r.calls,
                               zeroed |-> r.zeroed,
                               shots |-> st.shots,
                               clock |-> st.clock],
               shots |-> [ever |-> Log(st.shots.ever),
                          run |-> IF restarted THEN NoShots ELSE Log(st.shots.run)],
               clock |-> [playing |-> now,
                          kill |-> IF restarted THEN -1
                                   ELSE IF playing
                                           /\ r.w.player.kills > st.world.player.kills
                                        THEN now
                                   ELSE st.clock.kill]])

\* ------------------------------------------------------------------------
\* Inputs enumerated by the model
\* ------------------------------------------------------------------------
NoKeys == [enter |-> FALSE, escape |-> FALSE, start_just |-> FALSE, b_just |-> FALSE]

KeyOf(k) ==
    [enter |-> k = "enter", escape |-> k = "escape", start_just |-> k = "start",
     b_just |-> k = "b"]

KeySet == {KeyOf(k) : k \in {"none", "enter", "escape", "start", "b"}}

\* Random draws of a frame: per-pellet spread offsets (1/1000 of the weapon's
\* spread, horizontal and vertical) and the particle-life draw (percent of range).
NoSpread == [i \in 1..8 |-> <<0, 0>>]
HalfWide == [i \in 1..8 |-> IF i <= 4 THEN <<1000, 1000>> ELSE <<0, 0>>]
Steady == [offs |-> NoSpread, life_pct |-> 100]
Shaky == [offs |-> HalfWide, life_pct |-> 0]

\* A frame in which the player holds still: orientation kept, nothing pressed
\* but keys.
IdleInput(w, keys) ==
    [enter |-> keys.enter, escape |-> keys.escape, start_just |-> keys.start_just,
     b_just |-> keys.b_just, events |-> <<>>,
     yaw |-> w.player.yaw, pitch |-> w.player.pitch,
     fwd |-> 0, strafe |-> 0, sprint |-> FALSE, sel |-> <<"none", 0>>,
     shoot |-> FALSE, rnd |-> Steady]

\* The gamepad events of a frame in which the player taps Start or B (pressed
\* and released within the frame), presses Start and keeps it down, or lets
\* it go; and whether the button is in the position to do so.
EventsOf(k) ==
    CASE k = "start" -> << <<"ButtonPressed", "Start">>, <<"ButtonReleased", "Start">> >>
      [] k = "b" -> << <<"ButtonPressed", "East">>, <<"ButtonReleased", "East">> >>
      [] k = "start_down" -> << <<"ButtonPressed", "Start">> >>
      [] k = "start_up" -> << <<"ButtonReleased", "Start">> >>
      [] OTHER -> <<>>

CanPress(g, k) ==
    CASE k \in {"start", "start_down"} -> ~g.start_pressed
      [] k = "start_up" -> g.start_pressed
      [] k = "b" -> ~g.b_pressed
      [] OTHER -> TRUE

\* What the player does in a frame: a key (k), an orientation to turn to
\* (yaw in quarter turns, pitch as index; -1 keeps it), W/S (fwd), a weapon
\* key (sel, -1 for none), the trigger, and whether the spread draw is wide.
Act(k, yaw, pitch, fwd, sel, shoot, shaky) ==
    [k |-> k, yaw |-> yaw, pitch |-> pitch, fwd |-> fwd, sel |-> sel,
     shoot |-> shoot, shaky |-> shaky]

InputOf(w, a) ==
    [enter |-> a.k = "enter", escape |-> a.k = "escape", start_just |-> FALSE,
     b_just |-> FALSE, events |-> EventsOf(a.k),
     yaw |-> IF a.yaw < 0 THEN w.player.yaw ELSE a.yaw,
     pitch |-> IF a.pitch < 0 THEN w.player.pitch ELSE a.pitch,
     fwd |-> a.fwd, strafe |-> 0, sprint |-> FALSE,
     sel |-> IF a.sel < 0 THEN <<"none", 0>> ELSE <<"key", a.sel>>,
     shoot |-> a.shoot,
     rnd |-> IF a.shaky THEN Shaky ELSE Steady]

Idle == Act("none", -1, -1, 0, -1, FALSE, FALSE)
Press(k) == Act(k, -1, -1, 0, -1, FALSE, FALSE)
Walk(yaw, fwd) == Act("none", yaw, -1, fwd, -1, FALSE, FALSE)
Select(n) == Act("none", -1, -1, 0, n, FALSE, FALSE)
Fire(yaw, pitch) == Act("none", yaw, pitch, 0, -1, TRUE, FALSE)

KeyActs ==
    {Press(k) : k \in {"none", "enter", "escape", "start", "b", "start_down", "start_up"}}

\* The frames of Playing, as <<frame time, input>>: hold still, walk along
\* the corridor and shoot level or downward at either frame time; pause,
\* walk across and walk while pausing in a long frame; confirm, gamepad
\* Start, step back, select a weapon, shoot backward and shoot with spread
\* in a short one; press and hold Start, or let it go, in either; walk west
\* in a long one.
PlayFrames ==
    (DtSet \X {Idle, Walk(0, 1), Fire(0, 0), Fire(0, 1)})
    \cup ({30} \X {Press("escape"), Walk(1, 1), Walk(2, 1),
                   [Walk(0, 1) EXCEPT !.k = "escape"],
                   Press("start_down"), Press("start_up")})
    \cup ({10} \X {Press("enter"), Press("start"), Walk(0, -1), Select(1), Select(3),
                   Fire(2, 0), [Fire(0, 1) EXCEPT !.shaky = TRUE],
                   [Select(3) EXCEPT !.k = "start_up"]})

\* The frames of Paused: any key, and the walk and shoot inputs.
PausedFrames == DtSet \X (KeyActs \cup {Walk(0, 1), Fire(0, 0)})

\* ------------------------------------------------------------------------
\* Reference playthrough: the frames of one session, from program start.
\* Every state along it is computed by Step, i.e. by update itself.
\* ------------------------------------------------------------------------
Playthrough ==
    << <<30, Idle>>, <<30, Idle>>, <<30, Idle>>,
       <<30, Idle>>, <<10, Press("enter")>>, <<10, Select(3)>>,
       <<10, Fire(2,0)>>, <<30, Idle>>, <<30, Press("start_down")>>,
       <<30, Idle>>, <<30, Press("b")>>, <<30, Press("start_up")>>,
       <<10, Fire(2,0)>>, <<10, Walk(0,1)>>, <<30, Idle>>,
       <<10, Idle>>, <<10, Press("start_down")>>, <<10, Press("enter")>>,
       <<10, [Select(3) EXCEPT !.k = "start_up"]>>, <<10, Fire(0,0)>>, <<10, Select(1)>>,
       <<10, Fire(0,0)>>, <<30, Idle>>, <<30, Fire(0,0)>>,
       <<30, Walk(0,1)>>, <<30, Walk(0,1)>>, <<30, Walk(0,1)>>,
       <<10, Idle>>, <<10, Press("enter")>>, <<30, Walk(0,1)>>,
       <<10, Walk(0,1)>>, <<10, Fire(0,1)>>, <<30, Walk(0,1)>>,
       <<30, Idle>>, <<30, Idle>>, <<10, Idle>>,
       <<30, Fire(0,1)>>, <<10, Walk(0,1)>>, <<30, Walk(1,1)>>,
       <<10, Press("start")>>, <<10, Fire(0,0)>>, <<30, Walk(0,1)>>,
       <<30, Walk(0,1)>>, <<30, Walk(1,1)>>, <<10, Walk(0,-1)>>,
       <<10, Walk(0,-1)>>, <<10, Press("enter")>>, <<30, Walk(0,1)>>,
       <<10, Fire(0,1)>>, <<30, Walk(0,1)>>, <<10, Select(3)>>,
       <<10, Fire(0,0)>>, <<30, Walk(0,1)>>, <<10, Press("enter")>>,
       <<10, Select(1)>>, <<30, Idle>>, <<10, Fire(0,1)>>,
       <<30, Walk(0,1)>>, <<30, Walk(0,1)>>, <<30, Walk(0,1)>>,
       <<30, Idle>>, <<10, Press("enter")>>, <<30, Idle>> >>

\* The frame states after items lo..hi of the playthrough, starting from st.
RECURSIVE RunFrom(_, _, _)
RunFrom(st, lo, hi) ==
    IF lo > hi THEN <<>>
    ELSE IF lo = hi
    THEN Then(InputOf(st.world, Playthrough[lo][2]), LAMBDA inp :
           <<Step(st, Playthrough[lo][1], inp)>>)
    ELSE LET mid == (lo + hi) \div 2
         IN  Then(RunFrom(st, lo, mid), LAMBDA left :
             Then(RunFrom(left[Len(left)], mid + 1, hi), LAMBDA rest : left \o rest))

Trace == <<Boot>> \o RunFrom(Boot, 1, Len(Playthrough))

\* ------------------------------------------------------------------------
\* State machine: one action per arm of update().  The initial states are
\* the states along the playthrough; from each, every input of the model is
\* explored for MaxFrames frames.
\* ------------------------------------------------------------------------
Init ==
    \E trace \in {Trace} : \E k \in DOMAIN trace :
        /\ world = trace[k].world
        /\ time = trace[k].time
        /\ cursor_grab = trace[k].cursor_grab
        /\ mouse_shown = trace[k].mouse_shown
        /\ gamepad = trace[k].gamepad
        /\ last_frame = trace[k].last_frame
        /\ shots = trace[k].shots
        /\ clock = trace[k].clock
        /\ frames = 0

Here == [world |-> world, time |-> time, cursor_grab |-> cursor_grab,
         mouse_shown |-> mouse_shown, gamepad |-> gamepad, last_frame |-> last_frame,
         shots |-> shots, clock |-> clock]

Frame(dt, a) ==
    /\ frames < MaxFrames
    /\ CanPress(gamepad, a.k)
    /\ \E here \in {Here} : \E inp \in {InputOf(world, a)} :
       \E st \in {Step(here, dt, inp)} :
          /\ world' = st.world
          /\ time' = st.time
          /\ cursor_grab' = st.cursor_grab
          /\ mouse_shown' = st.mouse_shown
          /\ gamepad' = st.gamepad
          /\ last_frame' = st.last_frame
          /\ shots' = st.shots
          /\ clock' = st.clock
          /\ frames' = frames + 1

MenuFrame ==
    /\ world.state = "Menu"
    /\ \E dt \in DtSet, a \in KeyActs : Frame(dt, a)

PlayingFrame ==
    /\ world.state = "Playing"
    /\ \E f \in PlayFrames : Frame(f[1], f[2])

PausedFrame ==
    /\ world.state = "Paused"
    /\ \E f \in PausedFrames : Frame(f[1], f[2])

EndScreenFrame ==
    /\ world.state \in {"Dead", "Victory"}
    /\ \E dt \in DtSet, a \in KeyActs : Frame(dt, a)

Next == MenuFrame \/ PlayingFrame \/ PausedFrame \/ EndScreenFrame

Spec == Init /\ [][Next]_vars

TypeOK ==
    /\ world.state \in {"Menu", "Playing", "Paused", "Dead", "Victory"}
    /\ world.current_level \in 1..5
    /\ frames \in 0..MaxFrames


\* ------------------------------------------------------------------------
\* Properties
\* ------------------------------------------------------------------------
\* The world before the last frame, and whether a frame has been processed.
Before == last_frame.before
Stepped == last_frame.dt > 0

AllDead(w) == \A i \in DOMAIN w.enemies : w.enemies[i].dead

ExitDistSq(w) ==
    LET e == find_char(LevelOf(w.current_level), "X")
    IN  (w.player.pos.x - e[1]) * (w.player.pos.x - e[1])
          + (w.player.pos.z - e[2]) * (w.player.pos.z - e[2])

\* C1: the state becomes Victory only in a Playing frame at whose end no
\* enemy is alive and the player's horizontal distance to the exit marker is
\* below 2.0; a frame that kills the last enemy farther away does not end in
\* Victory.
C1_VictoryOnlyAtExit ==
    /\ Stepped /\ world.state = "Victory" /\ Before.state # "Victory"
          => /\ Before.state = "Playing"
             /\ AllDead(world)
             /\ ExitDistSq(world) < 200 * 200
    /\ Stepped /\ ~AllDead(Before) /\ AllDead(world) /\ ExitDistSq(world) >= 500 * 500
          => world.state # "Victory"

\* C1 witness: a Playing frame that ended in Victory.
C1_Witness ==
    frames > 0 /\ Before.state = "Playing" /\ world.state = "Victory"

\* C2 as stated: a Playing frame after whose entity updates no enemy is
\* alive and the player is within 2 units of the exit ends in Victory,
\* whatever the inputs and the player's health.
C2_AlwaysVictory ==
    Stepped /\ Before.state = "Playing" /\ AllDead(world) /\ ExitDistSq(world) < 200 * 200
       => world.state = "Victory"

\* C2 amended: such a frame ends in Victory unless the pause input (Escape or
\* gamepad Start) is pressed in it, then it ends in Paused, or the player's
\* health is 0 at its end, then it ends in Dead.
C2_VictoryUnlessPausedOrDead ==
    Stepped /\ Before.state = "Playing" /\ AllDead(world) /\ ExitDistSq(world) < 200 * 200
       => world.state = IF world.player.health <= 0 THEN "Dead"
                        ELSE IF last_frame.pause THEN "Paused"
                        ELSE "Victory"

\* C2 witness: the player reaches the exit of a cleared level in a frame in
\* which the pause input is pressed.
C2_Witness ==
    /\ frames > 0 /\ Before.state = "Playing"
    /\ AllDead(world) /\ ExitDistSq(world) < 200 * 200
    /\ ExitDistSq(Before) >= 200 * 200
    /\ last_frame.pause /\ world.state = "Paused"

\* C3: a Playing frame in which the player's health is reduced to 0 (by an
\* enemy attack in update_enemies or by splash damage in explode) ends in the
\* state Dead.
C3_ZeroHealthEndsRun ==
    Stepped /\ Before.state = "Playing" /\ last_frame.zeroed
       => world.state = "Dead"

\* C3, the frame that escapes: health reaches 0 in update_enemies and the
\* Health pickup collected by update_pickups in the same frame restores it.
C3_Revived ==
    /\ frames > 0 /\ Before.state = "Playing" /\ last_frame.zeroed
    /\ world.state = "Playing" /\ world.player.health > 0

\* Frames that load a level: restart() from the menu, advance after a victory.
RestartFrame == Stepped /\ Before.state = "Menu" /\ world.state = "Playing"
AdvanceFrame == Stepped /\ Before.state = "Victory" /\ world.state = "Playing"

\* Pickups of a type collected in the last frame (a frame that loads no level).
Fresh(ptype) ==
    {k \in DOMAIN world.pickups :
        /\ world.pickups[k].pickup_type = ptype
        /\ world.pickups[k].collected /\ ~Before.pickups[k].collected}

AllFresh == UNION {Fresh(p) : p \in {"Health", "Ammo", "SpeedBoost", "DamageBoost", "Armor"}}

\* C4: the state changes within one update only along Menu->Playing
\* (confirm), Playing->Paused/Dead/Victory, Paused->Playing (resume),
\* Dead->Menu (confirm), Victory->Playing (confirm, level < 5, level + 1) and
\* Victory->Menu (confirm, level 5); confirm on Dead always leads to Menu; the
\* level changes in no other frame and stays in 1..5.
C4_Transitions ==
    /\ world.current_level \in 1..5
    /\ Stepped /\ world.state # Before.state =>
          \/ Before.state = "Menu" /\ world.state = "Playing" /\ last_frame.confirm
          \/ Before.state = "Playing" /\ world.state \in {"Paused", "Dead", "Victory"}
          \/ Before.state = "Paused" /\ world.state = "Playing" /\ last_frame.resume
          \/ Before.state = "Dead" /\ world.state = "Menu" /\ last_frame.confirm
          \/ /\ Before.state = "Victory" /\ world.state = "Playing" /\ last_frame.confirm
             /\ Before.current_level < 5
             /\ world.current_level = Before.current_level + 1
          \/ /\ Before.state = "Victory" /\ world.state = "Menu" /\ last_frame.confirm
             /\ Before.current_level = 5
    /\ Stepped /\ Before.state = "Dead" /\ last_frame.confirm => world.state = "Menu"
    /\ Stepped /\ Before.state = "Victory" /\ last_frame.confirm
          => world.state = IF Before.current_level < 5 THEN "Playing" ELSE "Menu"
    /\ Stepped /\ ~RestartFrame /\ ~AdvanceFrame
          => world.current_level = Before.current_level

\* C4 witness: confirm on the victory screen of level 5 returned to the menu.
C4_Witness ==
    /\ frames > 0 /\ Before.state = "Victory" /\ Before.current_level = 5
    /\ last_frame.confirm /\ world.state = "Menu" /\ world.current_level = 5

\* Dead->Menu and Victory->Menu change nothing but the state.
KeptByMenu ==
    Stepped /\ Before.state \in {"Dead", "Victory"} /\ world.state = "Menu"
       => /\ world.player.score = Before.player.score
          /\ world.player.kills = Before.player.kills
          /\ world.total_kills = Before.total_kills
          /\ world.player.weapons = Before.player.weapons
          /\ world.current_level = Before.current_level
          /\ world.enemies = Before.enemies
          /\ world.pickups = Before.pickups

\* Outside restart(): the score is not set back, no weapon is recreated (its
\* last_shot does not go back, its ammo grows only by an Ammo pickup), and
\* level 1 is not reloaded (no kill or collection on it is undone).
NoResetOutsideRestart ==
    Stepped /\ ~RestartFrame
       => /\ world.player.score >= Before.player.score
          /\ \A i \in 1..4 :
                /\ world.player.weapons[i].last_shot >= Before.player.weapons[i].last_shot
                /\ world.player.weapons[i].ammo > Before.player.weapons[i].ammo
                      => ~AdvanceFrame /\ Fresh("Ammo") # {}
          /\ world.current_level = 1
                => /\ Before.current_level = 1
                   /\ \A i \in DOMAIN Before.enemies :
                         Before.enemies[i].dead => world.enemies[i].dead
                   /\ \A k \in DOMAIN Before.pickups :
                         Before.pickups[k].collected => world.pickups[k].collected

\* The world restart() leaves.
AfterRestart ==
    RestartFrame
       => /\ world.player.score = 0 /\ world.player.kills = 0 /\ world.total_kills = 0
          /\ world.player.health = MAX_HEALTH /\ world.player.armor = 0
          /\ world.player.speed_boost = 0 /\ world.player.damage_boost = 0
          /\ \A i \in 1..4 : world.player.weapons[i].ammo = WeaponTable[i].max_ammo
          /\ world.player.current_weapon = 0
          /\ world.combo = 0
          /\ world.current_level = 1
          /\ world.enemies = spawn_enemies(level_1)
          /\ world.pickups = spawn_pickups(level_1)

\* C5 as stated: Dead->Menu and Victory->Menu keep score, kills, total_kills,
\* weapons, level, enemies and pickups; score, kills and weapons are reset and
\* level 1 is reloaded by restart() only; restart() leaves the listed values.
C5_ResetOnlyByRestart ==
    /\ KeptByMenu /\ NoResetOutsideRestart /\ AfterRestart
    /\ Stepped /\ ~RestartFrame => world.player.kills >= Before.player.kills

\* C5 amended: as stated, except that kills is also set to 0 by every level
\* advance (Victory->Playing).
C5_KillsAlsoResetByAdvance ==
    /\ KeptByMenu /\ NoResetOutsideRestart /\ AfterRestart
    /\ Stepped /\ ~RestartFrame /\ ~AdvanceFrame
          => world.player.kills >= Before.player.kills
    /\ AdvanceFrame => world.player.kills = 0

\* C5 witness: restart() after a run that reached level 5 with score, armor
\* and spent ammo.
C5_Witness ==
    /\ frames > 0 /\ RestartFrame
    /\ Before.current_level = 5 /\ Before.player.score > 0 /\ Before.player.armor > 0
    /\ Before.player.weapons[2].ammo < WeaponTable[2].max_ammo

\* C6: advancing from Victory empties projectiles and particles, sets yaw and
\* pitch to 0 and the position to the new level's start marker, respawns the
\* enemies and pickups of the new level, sets kills to 0, and keeps score,
\* total_kills, every weapon's ammo, armor and both boost timers.
C6_LevelAdvance ==
    AdvanceFrame
       => LET lv == LevelOf(Before.current_level + 1)
              p == find_char(lv, "P")
          IN  /\ world.current_level = Before.current_level + 1
              /\ world.projectiles = <<>> /\ world.particles = <<>>
              /\ world.player.yaw = 0 /\ world.player.pitch = 0
              /\ world.player.pos = Vec3(p[1], PLAYER_HEIGHT, p[2])
              /\ world.enemies = spawn_enemies(lv)
              /\ world.pickups = spawn_pickups(lv)
              /\ world.player.kills = 0
              /\ world.player.score = Before.player.score
              /\ world.total_kills = Before.total_kills
              /\ \A i \in 1..4 :
                    world.player.weapons[i].ammo = Before.player.weapons[i].ammo
              /\ world.player.armor = Before.player.armor
              /\ world.player.speed_boost = Before.player.speed_boost
              /\ world.player.damage_boost = Before.player.damage_boost

\* C6 witness: an advance taken with a rocket still in flight, after a kill,
\* with a running damage boost.
C6_Witness ==
    /\ frames > 0 /\ AdvanceFrame
    /\ Before.projectiles # <<>> /\ Before.player.kills > 0
    /\ Before.player.damage_boost > 0 /\ Before.player.score > 0

\* C7: a frame processed in Paused without resume input changes nothing of
\* the world; with resume input (Escape, Start or B) it changes the state to
\* Playing and nothing else.
C7_PausedFrozen ==
    Stepped /\ Before.state = "Paused"
       => world = IF last_frame.resume THEN [Before EXCEPT !.state = "Playing"]
                  ELSE Before

\* C7 witness: a Paused frame with the trigger held, while an enemy is alive
\* and particles are in the air.
C7_Witness ==
    /\ frames > 0 /\ Before.state = "Paused" /\ world.state = "Paused"
    /\ last_frame.shoot /\ ~last_frame.resume
    /\ world.particles # <<>> /\ alive_enemies(world) > 0

\* C8: after every update the pointer is grabbed iff the state is Playing, and
\* shown iff not grabbed; update calls set_cursor_grab exactly in the frames
\* that enter or leave Playing, with true on entering and false on leaving.
C8_PointerIffPlaying ==
    Stepped
       => /\ cursor_grab = (world.state = "Playing")
          /\ mouse_shown = ~cursor_grab
          /\ (last_frame.calls # <<>>)
                = ((Before.state = "Playing") # (world.state = "Playing"))
          /\ \A n \in DOMAIN last_frame.calls :
                last_frame.calls[n] = (world.state = "Playing")

\* C8 witness: the frame that reaches Victory released the pointer once.
C8_Witness ==
    /\ frames > 0 /\ Before.state = "Playing" /\ world.state = "Victory"
    /\ last_frame.calls = <<FALSE>> /\ ~cursor_grab /\ mouse_shown

\* C9: in a frame that loads no level a collected pickup stays collected, and
\* only a pickup collected in that frame has an effect: without one of the
\* type, health, armor, ammo and the boost timers do not grow, and in a frame
\* without a kill the score grows by 50 per pickup collected in it.
C9_CollectedOnce ==
    Stepped /\ ~RestartFrame /\ ~AdvanceFrame
       => /\ \A k \in DOMAIN Before.pickups :
                Before.pickups[k].collected => world.pickups[k].collected
          /\ Fresh("Health") = {} => world.player.health <= Before.player.health
          /\ Fresh("Armor") = {} => world.player.armor <= Before.player.armor
          /\ Fresh("Ammo") = {}
                => \A i \in 1..4 :
                      world.player.weapons[i].ammo <= Before.player.weapons[i].ammo
          /\ Fresh("SpeedBoost") = {}
                => world.player.speed_boost <= Before.player.speed_boost
          /\ Fresh("DamageBoost") = {}
                => world.player.damage_boost <= Before.player.damage_boost
          /\ (\A i \in DOMAIN Before.enemies :
                 world.enemies[i].dead = Before.enemies[i].dead)
                => world.player.score = Before.player.score + 50 * Cardinality(AllFresh)

\* C9 witness: a Playing frame that the player spends within 1.5 units of a
\* pickup collected earlier.
C9_Witness ==
    /\ frames > 0 /\ Before.state = "Playing" /\ world.state = "Playing"
    /\ \E k \in DOMAIN Before.pickups :
          /\ Before.pickups[k].collected
          /\ InPickupRange(Before, k) /\ InPickupRange(world, k)

\* The weapon slot (1..4) that a fire attempt of the last frame used.
Attempted ==
    IF Stepped /\ Before.state = "Playing" /\ last_frame.shoot
    THEN {world.player.current_weapon + 1} ELSE {}

\* prev[i]: time of the last honoured shot of slot i before the last frame.
Separated(prev, now) ==
    \A i \in 1..4 :
       /\ Stepped /\ now[i] = time /\ prev[i] >= 0
             => time - prev[i] >= WeaponTable[i].interval
       /\ i \in Attempted /\ prev[i] >= 0 /\ time - prev[i] < WeaponTable[i].interval
             => /\ world.player.weapons[i].last_shot = Before.player.weapons[i].last_shot
                /\ \/ world.player.weapons[i].ammo = Before.player.weapons[i].ammo
                   \/ Fresh("Ammo") # {}

\* C10 as stated: over any sequence of frames, a shot of a weapon is honoured
\* only 1/r seconds or more after the previous honoured shot of that weapon,
\* and an attempt made sooner changes neither its ammo nor its last_shot.
C10_SeparatedEver == Separated(last_frame.shots.ever, shots.ever)

\* C10 amended: the same, for the shots of one run (since the last restart()).
C10_SeparatedInRun == Separated(last_frame.shots.run, shots.run)

\* C10 witness: a fire attempt made sooner than 1/r after the weapon's
\* previous shot of the run, and rejected.
C10_Witness ==
    /\ frames > 0
    /\ \E i \in Attempted :
          /\ last_frame.shots.run[i] >= 0
          /\ time - last_frame.shots.run[i] < WeaponTable[i].interval
          /\ shots.run[i] = last_frame.shots.run[i]
          /\ world.player.weapons[i] = Before.player.weapons[i]

\* ------------------------------------------------------------------------
\* Unit specification: a Playing world is drawn, and one function of the frame
\* is applied to it once
\* ------------------------------------------------------------------------
HealthSet == {20 * HP, 90 * HP, MAX_HEALTH}
ArmorSet == {0, 40 * HP, 70 * HP}
DamageSet == {10 * HP, 15 * HP, 25 * HP, 50 * HP}
UnitTime == 10 * TicksPerSec

ComboSet == {0, 2}

\* The weapons after some shooting, five seconds ago: no shells, 150 rounds,
\* one rocket.
SpentWeapons ==
    [i \in 1..4 |-> [ammo |-> <<-1, 0, 150, 1>>[i],
                     last_shot |-> UnitTime - 5 * TicksPerSec]]

\* Level lvl as load_level leaves it, in a run that has come to the given
\* health, armour, combo and ammunition; with `gone', its first enemy was
\* shot a second ago.
UnitWorld(lvl, health, armor, combo, gone, spent) ==
    LET w == load_level(restart(NewWorld), lvl)
        w1 == [w EXCEPT !.player.health = health,
                        !.player.armor = armor,
                        !.player.weapons = IF spent THEN SpentWeapons ELSE @,
                        !.combo = combo,
                        !.combo_timer = IF combo > 0 THEN TicksPerSec ELSE 0]
    IN  IF gone
        THEN [w1 EXCEPT !.enemies[1].dead = TRUE,
                        !.enemies[1].health = 0,
                        !.enemies[1].death_time = UnitTime - TicksPerSec,
                        !.player.kills = 1,
                        !.total_kills = 1,
                        !.player.score = EnemyTable[w.enemies[1].etype].points + 50]
        ELSE w1

UnitInit ==
    /\ \E lvl \in 1..5, health \in HealthSet, armor \in ArmorSet,
          combo \in ComboSet, gone \in BOOLEAN, spent \in BOOLEAN :
          world = UnitWorld(lvl, health, armor, combo, gone, spent)
    /\ time = UnitTime
    /\ cursor_grab = TRUE
    /\ mouse_shown = FALSE
    /\ gamepad = GamepadDefault
    /\ last_frame = [before |-> world, dt |-> 0, op |-> "none", arg |-> 0]
    /\ shots = [ever |-> NoShots, run |-> NoShots]
    /\ clock = NoKill
    /\ frames = 0

\* No function has been applied to the drawn world yet.
Untouched == last_frame.op = "none"

\* The function named op, called on `from' with argument arg, returned `to'.
Applied(op, arg, dt, from, to) ==
    /\ world' = to
    /\ time' = time + dt
    /\ last_frame' = [before |-> from, dt |-> dt, op |-> op, arg |-> arg]
    /\ UNCHANGED <<cursor_grab, mouse_shown, gamepad, shots, clock, frames>>

\* Which of the drawn values a world has; an action that reads none of a
\* group of values is taken on the worlds with the plain ones only.
Unhurt == world.player.health = MAX_HEALTH /\ world.player.armor = 0
Stocked == world.player.weapons = NewWeapons
NoCombo == world.combo = 0
AllAlive == \A i \in DOMAIN world.enemies : ~world.enemies[i].dead

\* The world with the player standing at <<x, z>>.
At(w, x, z) == [w EXCEPT !.player.pos.x = x, !.player.pos.z = z]

\* Where the player stands relative to the first enemy: d west of it.
WestOfEnemy(w, d) == <<w.enemies[1].pos.x - d, w.enemies[1].pos.z>>

Start(w) == <<w.player.pos.x, w.player.pos.z>>

\* The world with enemy i standing at <<x, z>>.
EnemyAt(w, i, x, z) == [w EXCEPT !.enemies[i].pos.x = x, !.enemies[i].pos.z = z]

UnitAttack ==
    /\ Untouched
    /\ world.current_level = 1 /\ Stocked /\ NoCombo /\ AllAlive
    /\ \E damage \in DamageSet :
          Applied("Attack", damage, 0, world,
                  [world EXCEPT !.player = Attack(@, damage)])

\* update_enemies with the player at the start or 1, 1.5, 1.8 and 2 units
\* beside the first enemy; on level 1 also with the enemy pressed against the
\* far side of the inner wall; every enemy attacked last at time 0 or half a
\* second before this call.
EnemyScenes(w) ==
    {At(w, spot[1], spot[2]) :
        spot \in {Start(w)} \cup {WestOfEnemy(w, d) : d \in {U, 150, 180, 2 * U}}}
    \cup (IF w.current_level = 1
          THEN {EnemyAt(At(w, 22 * U, 6 * U), 1, 28 * U + 50, 6 * U)} ELSE {})

UnitEnemies ==
    /\ Untouched
    /\ Stocked /\ NoCombo
    /\ \E dt \in DtSet, scene \in EnemyScenes(world), last \in {0, time - 30} :
       \E from \in {[scene EXCEPT !.enemies =
                        [i \in DOMAIN @ |-> [@[i] EXCEPT !.last_attack = last]]]} :
       \E to \in {update_enemies(from, dt, time + dt)} :
          Applied("update_enemies", dt, dt, from, to)

\* update_player with the trigger held: from the start or 3 units from the
\* first enemy, level or downward, after selecting a weapon by key, wheel or
\* bumper.
UnitSelections ==
    {<<"key", n>> : n \in 0..3} \cup {<<"next", 0>>, <<"prev", 0>>, <<"none", 0>>}

UnitPlayer ==
    /\ Untouched
    /\ Unhurt
    /\ \E sel \in UnitSelections, pitch \in 0..1,
          spot \in {Start(world), WestOfEnemy(world, 3 * U)} :
       \E from \in {At(world, spot[1], spot[2])} :
       \E inp \in {[IdleInput(from, NoKeys) EXCEPT !.pitch = pitch, !.sel = sel,
                                                    !.shoot = TRUE]} :
       \E to \in {update_player(from, 10, time + 10, inp)} :
          Applied("update_player", inp, 10, from, to)

\* update_projectiles with one rocket in flight that this frame carries onto
\* the first enemy, 3 units east of the player's start, or into the west wall.
Rocket(x, y, z, dt) ==
    [pos |-> Vec3(x - TruncDiv(PROJ_SPEED * dt, TicksPerSec), y, z),
     vel |-> Vec3(PROJ_SPEED, 0, 0), damage |-> 250 * HP, explosive |-> TRUE]

UnitProjectiles ==
    /\ Untouched
    /\ world.player.armor = 0 /\ Stocked
    /\ \E target \in {world.enemies[1].pos,
                        VAdd(world.player.pos, Vec3(3 * U, 0, 0)),
                        Vec3(2 * U, PLAYER_HEIGHT, 6 * U)} :
       \E from \in {[world EXCEPT !.projectiles =
                        <<Rocket(target.x, target.y, target.z, 10)>>]} :
       \E to \in {update_projectiles(from, 10, time + 10, Steady)} :
          Applied("update_projectiles", target, 10, from, to)

\* update_pickups with the player at the start, on a pickup, and 1.4 and 1.5
\* units from one.
PickupSpots(w) ==
    {Start(w)} \cup UNION {{<<w.pickups[k].pos.x + d, w.pickups[k].pos.z>> :
                               d \in {0, 140, 150}} : k \in DOMAIN w.pickups}

UnitPickups ==
    /\ Untouched
    /\ NoCombo /\ AllAlive
    /\ \E spot \in PickupSpots(world) :
       \E from \in {At(world, spot[1], spot[2])} :
       \E to \in {update_pickups(from, 10, Steady)} :
          Applied("update_pickups", spot, 10, from, to)

\* Blast centres: on, 3, 5, 10 and 12 units beside each enemy, and 4 units
\* beside the player.
BlastPoints(w) ==
    {VAdd(w.enemies[i].pos, Vec3(dx, 0, 0)) :
        i \in DOMAIN w.enemies, dx \in {0, -3 * U, -5 * U, -10 * U, 12 * U}}
    \cup {VAdd(w.player.pos, Vec3(4 * U, 0, 0))}

UnitExplode ==
    /\ Untouched
    /\ world.player.armor \in {0, 40 * HP} /\ Stocked
    /\ \E pos \in BlastPoints(world), damage \in {250 * HP, 500 * HP} :
       \E to \in {explode(world, pos, damage, time, Steady)} :
          Applied("explode", [pos |-> pos, damage |-> damage], 0, world, to)

\* Where a moving entity stands: 0.6 from the west wall, from the north wall,
\* from both, and diagonally off the corner of level 5's pillar; and how far
\* a frame carries it along each axis.
SlideSpots ==
    {<<4 * U + 60, 6 * U>>, <<6 * U, 4 * U + 60>>, <<4 * U + 60, 4 * U + 60>>,
     <<16 * U - 40, 8 * U - 40>>}
SlideSteps == {-U, 0, U}

\* The player (who = 0) or the first enemy, placed on a spot, is moved by the
\* collision response of update_player / update_enemies.  Movement reads
\* neither health, armour nor combo.
UnitSlide ==
    /\ Untouched
    /\ Unhurt /\ Stocked /\ NoCombo
    /\ \E who \in 0..1, from \in SlideSpots, dx \in SlideSteps, dz \in SlideSteps :
          /\ who = 1 => ~world.enemies[1].dead
          /\ <<dx, dz>> # <<0, 0>>
          /\ LET radius == IF who = 0 THEN PLAYER_RADIUS ELSE 50
                 p == Slide(Lvl(world), from[1], from[2], from[1] + dx, from[2] + dz,
                            radius)
                 Put(x, z) == IF who = 0
                              THEN [world EXCEPT !.player.pos.x = x, !.player.pos.z = z]
                              ELSE [world EXCEPT !.enemies[1].pos.x = x,
                                                 !.enemies[1].pos.z = z]
             IN  Applied("Slide", [who |-> who, new_x |-> from[1] + dx,
                                   new_z |-> from[2] + dz, radius |-> radius],
                         0, Put(from[1], from[2]), Put(p[1], p[2]))

\* is_wall asked about a cell index, and get_floor_height about a coordinate
\* in that cell's corner or 0.01 short of the next cell, from two cells
\* outside the grid on every side to the cells inside.
UnitGrid ==
    /\ Untouched
    /\ Unhurt /\ Stocked /\ NoCombo /\ AllAlive
    /\ \E c \in (-2 .. Lvl(world).width + 1) \X (-2 .. Lvl(world).height + 1),
          ox \in {0, CELL_SIZE - 1}, oz \in {0, CELL_SIZE - 1} :
       \E x \in {c[1] * CELL_SIZE + ox}, z \in {c[2] * CELL_SIZE + oz} :
          Applied("grid",
                  [gx |-> c[1], gz |-> c[2], x |-> x, z |-> z,
                   is_wall |-> is_wall(Lvl(world), c[1], c[2]),
                   get_floor_height |-> get_floor_height(Lvl(world), x, z)],
                  0, world, world)

\* raycast_shot along the player's line of sight: on level 1 from the cell
\* west of the inner wall with the Heavy before or beyond that wall, on level
\* 2 downward at two Grunts that stand 2.93 units away and 0 to 1.3 apart, the
\* second spawned the nearer one, elsewhere from the start.
ShotScenes(w) ==
    LET px == w.player.pos.x
        pz == w.player.pos.z
    IN  CASE w.current_level = 1 ->
               {EnemyAt(At(w, 22 * U, 6 * U), 1, x, 6 * U) : x \in {2350, 30 * U}}
          [] w.current_level = 2 ->
               {EnemyAt(EnemyAt(w, 1, px + 293, pz), 2, px + 293 - d, pz) :
                   d \in {0, 10, 20, 130}}
          [] OTHER -> {w}

UnitShot ==
    /\ Untouched
    /\ Unhurt /\ Stocked /\ NoCombo
    /\ \E scene \in ShotScenes(world), yaw \in {0, 2}, pitch \in 0..1, wi \in 1..3 :
       \E from \in {[scene EXCEPT !.player.yaw = yaw, !.player.pitch = pitch]} :
       \E dir \in {ScaleDir(forward(from.player))} :
       \E to \in {raycast_shot(from, dir, WeaponTable[wi].damage, time, Steady)} :
          Applied("raycast_shot", [dir |-> dir, damage |-> WeaponTable[wi].damage],
                  0, from, to)

\* update_projectiles with two rockets in flight, each carried by this frame
\* onto the first enemy, 0.5 beside it, onto open floor or into the west wall.
UnitSalvo ==
    /\ Untouched
    /\ Unhurt /\ Stocked /\ NoCombo
    /\ \E a, b \in {world.enemies[1].pos,
                      VAdd(world.enemies[1].pos, Vec3(U \div 2, 0, 0)),
                      VAdd(world.player.pos, Vec3(3 * U, 0, 0)),
                      Vec3(2 * U, PLAYER_HEIGHT, 6 * U)} :
       \E from \in {[world EXCEPT !.projectiles =
                        <<Rocket(a.x, a.y, a.z, 10), Rocket(b.x, b.y, b.z, 10)>>]} :
       \E to \in {update_projectiles(from, 10, time + 10, Steady)} :
          Applied("salvo", <<a, b>>, 10, from, to)

\* update as a whole, on the worlds a run brings it: Playing and Paused with
\* the player at the start or on the exit marker, Victory on the marker of a
\* cleared level, Dead and the Menu that follows it with no health left; on
\* level 1 also Playing on the marker with a rocket that this frame carries
\* into the inner wall 6 units east of it.  The cursor is grabbed in Playing
\* only.
UpdateScenes(w) ==
    LET e == find_char(Lvl(w), "X")
        exit == At(w, e[1], e[2])
        spent == [w EXCEPT !.player.health = 0]
    IN  {[at EXCEPT !.state = s] : at \in {w, exit}, s \in {"Playing", "Paused"}}
        \cup {[spent EXCEPT !.state = s] : s \in {"Dead", "Menu"}}
        \cup (IF AllDead(w) THEN {[exit EXCEPT !.state = "Victory"]} ELSE {})
        \cup (IF w.current_level = 1
              THEN {[exit EXCEPT !.projectiles =
                        <<Rocket(24 * U - 10, PLAYER_HEIGHT, e[2], 10)>>]}
              ELSE {})

UnitUpdate ==
    /\ Untouched
    /\ world.player.armor = 0 /\ Stocked /\ NoCombo
    /\ \E from \in UpdateScenes(world), keys \in KeySet :
       \E r \in {update(from, 10, time + 10, IdleInput(from, keys))} :
          /\ world' = r.w
          /\ time' = time + 10
          /\ cursor_grab' = IF r.calls = <<>> THEN from.state = "Playing"
                            ELSE r.calls[Len(r.calls)]
          /\ mouse_shown' = ~cursor_grab'
          /\ last_frame' = [before |-> from, dt |-> 10, op |-> "update", arg |-> keys]
          /\ UNCHANGED <<gamepad, shots, clock, frames>>

UnitNext ==
    \/ UnitAttack
    \/ UnitEnemies
    \/ UnitPlayer
    \/ UnitProjectiles
    \/ UnitExplode
    \/ UnitPickups
    \/ UnitSlide
    \/ UnitGrid
    \/ UnitShot
    \/ UnitSalvo

UnitSpec == UnitInit /\ [][UnitNext]_vars

\* update called once, as a whole, on the worlds of UpdateScenes.
UpdateNext == UnitUpdate

UpdateSpec == UnitInit /\ [][UpdateNext]_vars

\* ------------------------------------------------------------------------
\* The flight of a rocket: the player fires the rocket launcher in one of the
\* four directions, level, downward or as steeply upward as the pitch clamp
\* allows, and stands still through the Playing frames that follow, for as
\* long as a projectile is in flight.  main's loop runs frame after frame.
\* ------------------------------------------------------------------------
FlightInit ==
    /\ \E lvl \in 1..5, yaw \in 0..3, pitch \in 0..2, gone \in BOOLEAN :
          /\ pitch = 2 => lvl = 1 /\ gone
          /\ world = try_shoot([UnitWorld(lvl, MAX_HEALTH, 0, 0, gone, FALSE) EXCEPT
                                   !.player.current_weapon = 3,
                                   !.player.yaw = yaw,
                                   !.player.pitch = pitch],
                               UnitTime, Steady)
    /\ time = UnitTime
    /\ cursor_grab = TRUE
    /\ mouse_shown = FALSE
    /\ gamepad = GamepadDefault
    /\ last_frame = [before |-> world, dt |-> 0, op |-> "try_shoot", arg |-> 0]
    /\ shots = [ever |-> NoShots, run |-> NoShots]
    /\ clock = NoKill
    /\ frames = 0

FlightFrame ==
    /\ world.state = "Playing"
    /\ world.projectiles # <<>>
    /\ time < UnitTime + MaxFlight
    /\ \E dt \in DtSet :
       \E r \in {update(world, dt, time + dt, IdleInput(world, NoKeys))} :
          /\ world' = r.w
          /\ time' = time + dt
          /\ cursor_grab' = IF r.calls = <<>> THEN cursor_grab ELSE r.calls[Len(r.calls)]
          /\ mouse_shown' = ~cursor_grab'
          /\ last_frame' = [before |-> world, dt |-> dt, op |-> "frame", arg |-> 0]
          /\ UNCHANGED <<gamepad, shots, clock, frames>>

FlightNext == FlightFrame

FlightSpec == FlightInit /\ [][FlightNext]_vars /\ WF_vars(FlightNext)

\* ------------------------------------------------------------------------
\* C11 -- armour
\* ------------------------------------------------------------------------
Did(op) == last_frame.op = op

\* C11: an attack of damage d on a player with armour a > 0 takes min(d, a)
\* from the armour and d - 0.7 * min(d, a) from the health, which stops at 0;
\* with armour 40 and damage 50 the armour becomes 0 and the health drops by
\* exactly 22.
C11_ArmorAbsorbs ==
    Did("Attack") /\ Before.player.armor > 0 =>
        LET d == last_frame.arg
            a == Before.player.armor
            absorbed == IF d < a THEN d ELSE a
            dropped == Before.player.health - world.player.health
        IN  /\ world.player.armor = a - absorbed
            /\ world.player.health >= 0
            /\ world.player.health > 0 => 10 * dropped = 10 * d - 7 * absorbed
            /\ world.player.health = 0 => 10 * dropped <= 10 * d - 7 * absorbed
            /\ a = 40 * HP /\ d = 50 * HP /\ Before.player.health >= 22 * HP
                 => world.player.armor = 0 /\ dropped = 22 * HP

C11_Witness ==
    /\ Did("Attack")
    /\ Before.player.armor = 40 * HP
    /\ last_frame.arg = 50 * HP
    /\ world.player.armor = 0
    /\ Before.player.health - world.player.health = 22 * HP
    /\ world.player.health > 0

\* ------------------------------------------------------------------------
\* C12 -- combo scoring
\* ------------------------------------------------------------------------
\* Enemies alive before the last frame and dead after it.
Slain == {i \in DOMAIN world.enemies : world.enemies[i].dead /\ ~Before.enemies[i].dead}

RECURSIVE SumPoints(_, _)
SumPoints(set, i) ==
    IF i > Len(world.enemies) THEN 0
    ELSE (IF i \in set THEN EnemyTable[world.enemies[i].etype].points ELSE 0)
         + SumPoints(set, i + 1)

\* A Playing frame that loads no level.
Played == Stepped /\ Before.state = "Playing"

\* Hit-scan kills of the last frame: only raycast_shot counts kills.
HitscanKills == world.player.kills - Before.player.kills

\* C12: every hit-scan kill increments the combo before its bonus is taken and
\* adds points + 50 * (new combo) to the score: in a Playing frame with k
\* hit-scan kills from combo c the combo becomes c + k and the score grows by
\* the points of the enemies that died, 50 * ((c + 1) + ... + (c + k)) and 50
\* per pickup collected; consecutive kills of 100-point enemies add 150, 200
\* and 250.
C12_ComboBonus ==
    Played =>
        LET c == Before.combo
            k == HitscanKills
            gain == world.player.score - Before.player.score
        IN  /\ k >= 0
            /\ k <= Cardinality(Slain)
            /\ k > 0 /\ world.combo_timer > 0 => world.combo = c + k
            /\ 2 * gain = 2 * SumPoints(Slain, 1) + 50 * k * (2 * c + k + 1)
                             + 100 * Cardinality(AllFresh)
            /\ k = 1 /\ AllFresh = {} /\ c < 3
                 /\ (\A i \in Slain : world.enemies[i].etype = "Grunt")
                 /\ Cardinality(Slain) = 1
                 => gain = <<150, 200, 250>>[c + 1]

C12_Witness ==
    /\ Played
    /\ frames > 0
    /\ HitscanKills = 1
    /\ Before.combo = 1
    /\ world.combo = 2
    /\ \E i \in Slain : world.enemies[i].etype = "Grunt"
    /\ world.player.score - Before.player.score = 200

\* ------------------------------------------------------------------------
\* C13 -- combo window
\* ------------------------------------------------------------------------
\* A hit-scan kill sets the timer to 2 s, every Playing frame subtracts its
\* dt after the entity updates, and a timer at or below 0 leaves the combo 0.
ComboTimerRule ==
    /\ Played => world.combo_timer =
                   (IF HitscanKills > 0 THEN 2 * TicksPerSec ELSE Before.combo_timer)
                   - last_frame.dt
    /\ world.combo_timer <= 0 => world.combo = 0

\* Playing time between the last frame, if it made a hit-scan kill, and the
\* frame of the hit-scan kill before it; -1 when there is no such pair.
KillGap ==
    IF Played /\ HitscanKills > 0 /\ last_frame.clock.kill >= 0
    THEN clock.playing - last_frame.clock.kill
    ELSE -1

\* C13: the combo is reset to 0 once 2 seconds of Playing frames pass without
\* a kill (a kill sets combo_timer to 2.0, every Playing frame subtracts dt,
\* and at timer <= 0 the combo is 0 before the next kill's bonus), so a kill
\* 2 or more seconds after the previous one scores a bonus of exactly 50.
C13_ResetAfterTwoSeconds ==
    /\ ComboTimerRule
    /\ KillGap >= 2 * TicksPerSec /\ HitscanKills = 1 =>
          world.player.score - Before.player.score
            = SumPoints(Slain, 1) + 50 + 50 * Cardinality(AllFresh)

\* ------------------------------------------------------------------------
\* C14 -- explosion damage
\* ------------------------------------------------------------------------
\* Distance from the blast centre of the last explode call, in 1/100 unit.
BlastDist(p) == Sqrt(LenSq(VSub(last_frame.arg.pos, p)))

InBlast(p) == LenSq(VSub(last_frame.arg.pos, p)) < (10 * U) * (10 * U)

\* damage * (1 - dist / 10) * num / den as the fixed-point code computes it.
Falloff(damage, dist, num, den) == TruncDiv(damage * (10 * U - dist) * num, 10 * U * den)

\* C14: an explosion of damage D takes D * (1 - dist/10) from every living
\* enemy closer than 10 and D * (1 - dist/10) * 0.3 from the player's health
\* (not below 0) if closer than 10, and nothing at 10 or more; D = 250 takes
\* exactly 125 from an enemy at distance 5.
C14_BlastFalloff ==
    Did("explode") =>
        LET D == last_frame.arg.damage
        IN  /\ \A i \in DOMAIN world.enemies :
                  LET e == Before.enemies[i]
                      lost == e.health - world.enemies[i].health
                  IN  /\ lost = IF ~e.dead /\ InBlast(e.pos)
                                THEN Falloff(D, BlastDist(e.pos), 1, 1) ELSE 0
                      /\ ~e.dead /\ D = 250 * HP /\ BlastDist(e.pos) = 5 * U
                           => lost = 125 * HP
            /\ world.player.health =
                  IF InBlast(Before.player.pos)
                  THEN Max(Before.player.health
                             - Falloff(D, BlastDist(Before.player.pos), 3, 10), 0)
                  ELSE Before.player.health
            /\ world.player.armor = Before.player.armor

C14_Witness ==
    /\ Did("explode")
    /\ last_frame.arg.damage = 250 * HP
    /\ \E i \in DOMAIN world.enemies :
          /\ ~Before.enemies[i].dead
          /\ BlastDist(Before.enemies[i].pos) = 5 * U
          /\ Before.enemies[i].health - world.enemies[i].health = 125 * HP
          /\ ~world.enemies[i].dead
    /\ InBlast(Before.player.pos)
    /\ world.player.health > 0
    /\ world.player.health < Before.player.health

\* ------------------------------------------------------------------------
\* C15 -- wall sliding
\* ------------------------------------------------------------------------
\* The entity the last Slide moved, before and after.
Mover(w) == IF last_frame.arg.who = 0 THEN w.player.pos ELSE w.enemies[1].pos

Blocked(x, z) == check_collision(Lvl(world), x, z, last_frame.arg.radius)

\* C15: the player (radius 0.3) and the enemies (radius 0.5) move per axis, X
\* then Z: the X candidate is taken unless it collides, then the Z candidate
\* unless it collides; when X collides and Z does not, X stays and Z is
\* applied, and the other way round; an entity that stands free of the walls
\* never ends inside one.
C15_SlideAlongWalls ==
    Did("Slide") =>
        LET old == Mover(Before)
            now == Mover(world)
            new_x == last_frame.arg.new_x
            new_z == last_frame.arg.new_z
            x_hits == Blocked(new_x, old.z)
            z_hits == Blocked(now.x, new_z)
        IN  /\ last_frame.arg.radius = IF last_frame.arg.who = 0 THEN 30 ELSE 50
            /\ now.x = IF x_hits THEN old.x ELSE new_x
            /\ now.z = IF z_hits THEN old.z ELSE new_z
            /\ x_hits /\ ~z_hits => now.x = old.x /\ now.z = new_z
            /\ z_hits /\ ~x_hits => now.z = old.z /\ now.x = new_x
            /\ ~Blocked(old.x, old.z) /\ ~Blocked(now.x, now.z)

\* The player slides along the west wall: pushed into it and southward, only
\* the southward part is taken.
C15_Witness ==
    /\ Did("Slide")
    /\ last_frame.arg.who = 0
    /\ Blocked(last_frame.arg.new_x, Mover(Before).z)
    /\ last_frame.arg.new_x < Mover(Before).x
    /\ Mover(world).x = Mover(Before).x
    /\ Mover(world).z = last_frame.arg.new_z
    /\ Mover(world).z > Mover(Before).z

\* ------------------------------------------------------------------------
\* C16 -- ranges of the player's fields
\* ------------------------------------------------------------------------
\* C16: after any sequence of frames the player's health is within
\* [0, MAX_HEALTH], the armour within [0, 100], there are exactly 4 weapons
\* and current_weapon is one of 0..3.
C16_PlayerRanges ==
    /\ world.player.health >= 0
    /\ world.player.health <= MAX_HEALTH
    /\ world.player.armor >= 0
    /\ world.player.armor <= 100 * HP
    /\ DOMAIN world.player.weapons = 1..4
    /\ world.player.current_weapon \in 0..3

\* A frame in which an enemy's blow exceeds the health that is left, with a
\* weapon other than the first in hand.
C16_Witness ==
    /\ Played
    /\ frames > 0
    /\ last_frame.zeroed
    /\ Before.player.health > 0
    /\ Before.player.health < 25 * HP
    /\ \E i \in DOMAIN world.enemies : world.enemies[i].last_attack = time
    /\ world.player.current_weapon = 3

\* ------------------------------------------------------------------------
\* C17 -- dead enemies
\* ------------------------------------------------------------------------
\* The enemy collection keeps its length, and an enemy that was dead is
\* exactly as it was: position, health, last_attack, dead, death_time.
DeadStayDead ==
    /\ Len(world.enemies) = Len(Before.enemies)
    /\ \A i \in DOMAIN Before.enemies :
          Before.enemies[i].dead => world.enemies[i] = Before.enemies[i]

\* No living enemy was within reach (2.0, horizontally) of the player.
NoLivingInReach ==
    \A i \in DOMAIN Before.enemies :
        \/ Before.enemies[i].dead
        \/ LenSq(Vec3(Before.player.pos.x - Before.enemies[i].pos.x, 0,
                       Before.player.pos.z - Before.enemies[i].pos.z)) >= (2 * U) * (2 * U)

\* The rocket of the last update_projectiles call came down clear of the
\* walls and more than 1.0 from every living enemy.
RocketClear ==
    LET q == last_frame.arg
    IN  /\ ~check_collision(Lvl(world), q.x, q.z, 20)
        /\ \A i \in DOMAIN Before.enemies :
              \/ Before.enemies[i].dead
              \/ LenSq(VSub(q, Before.enemies[i].pos)) >= U * U

\* C17: within one level load the enemy collection never gains or loses an
\* element and a dead flag never reverts; a dead enemy never moves, never
\* attacks, is never the target of a hit-scan shot, never stops or detonates
\* a projectile, and an explosion never changes its health.
C17_DeadEnemiesInert ==
    ~Untouched =>
        /\ DeadStayDead
        /\ Did("update_enemies") /\ NoLivingInReach =>
              world.player = Before.player
        /\ Did("update_projectiles") /\ RocketClear =>
              /\ Len(world.projectiles) = 1
              /\ world.projectiles[1].pos = last_frame.arg
              /\ world.particles = Before.particles
              /\ world.enemies = Before.enemies
              /\ world.player = Before.player
        /\ Did("update_player") /\ AllDead(Before) =>
              /\ world.player.score = Before.player.score
              /\ world.combo = Before.combo

\* A rocket comes down on the spot of a dead enemy and flies on.
C17_Witness ==
    /\ Did("update_projectiles")
    /\ Before.enemies[1].dead
    /\ last_frame.arg = Before.enemies[1].pos
    /\ Len(world.projectiles) = 1
    /\ world.enemies[1] = Before.enemies[1]

\* ------------------------------------------------------------------------
\* C18 -- ammunition
\* ------------------------------------------------------------------------
\* Finite ammunition is within [0, max_ammo] and the pistol's is -1.
AmmoInRange ==
    \A i \in 1..4 :
        IF WeaponTable[i].max_ammo > 0
        THEN world.player.weapons[i].ammo \in 0..WeaponTable[i].max_ammo
        ELSE world.player.weapons[i].ammo = -1

\* The weapon in hand when the trigger of the last update_player call was
\* tested, as an index of the weapon list (1..4).
InHand == world.player.current_weapon + 1

\* C18: with the trigger held, a weapon with ammo 0 does not fire: no
\* projectile, no hit-scan, ammo and last_shot as they were; an honoured shot
\* takes exactly 1 from a finite ammo count, whatever the pellet count, and
\* leaves an infinite count (-1); finite ammo stays within [0, max_ammo] and
\* the pistol's stays -1.
C18_AmmoRules ==
    /\ AmmoInRange
    /\ Did("update_player") =>
          LET old == Before.player.weapons[InHand]
              new == world.player.weapons[InHand]
              honoured == new.last_shot = time
          IN  /\ \A i \in 1..4 :
                    i # InHand => world.player.weapons[i] = Before.player.weapons[i]
              /\ old.ammo = 0 => ~honoured
              /\ ~honoured =>
                    /\ new = old
                    /\ world.projectiles = Before.projectiles
                    /\ world.enemies = Before.enemies
                    /\ world.particles = Before.particles
                    /\ world.player.score = Before.player.score
              /\ honoured =>
                    /\ new.ammo = IF old.ammo > 0 THEN old.ammo - 1 ELSE old.ammo
                    /\ old.ammo # 0
                    /\ IF WeaponTable[InHand].explosive
                       THEN Len(world.projectiles) = Len(Before.projectiles) + 1
                       ELSE Len(world.particles) > Len(Before.particles)

\* The trigger is held with the empty shotgun in hand.
C18_Witness ==
    /\ Did("update_player")
    /\ InHand = 2
    /\ Before.player.weapons[2].ammo = 0
    /\ world.player.weapons[2] = Before.player.weapons[2]
    /\ world.particles = <<>>
    /\ \E i \in DOMAIN Before.enemies : ~Before.enemies[i].dead

\* ------------------------------------------------------------------------
\* C19 -- pickup effects
\* ------------------------------------------------------------------------
Got(ptype) == Fresh(ptype) # {}

\* C19: collecting a pickup adds exactly 50 to the score and has exactly the
\* effect of its type: Health min(health + 25, MAX_HEALTH); Armor
\* min(armor + 50, 100); Ammo min(ammo + max_ammo / 2, max_ammo) for every
\* finite weapon and nothing for an infinite one; SpeedBoost and DamageBoost
\* set their timer to 10 seconds.
C19_PickupEffects ==
    Did("update_pickups") /\ Cardinality(AllFresh) <= 1 =>
        LET old == Before.player
            new == world.player
            Refilled(i) ==
                IF WeaponTable[i].max_ammo > 0
                THEN Min(old.weapons[i].ammo + WeaponTable[i].max_ammo \div 2,
                         WeaponTable[i].max_ammo)
                ELSE old.weapons[i].ammo
        IN  /\ new.score = old.score + 50 * Cardinality(AllFresh)
            /\ new.health = IF Got("Health") THEN Min(old.health + 25 * HP, MAX_HEALTH)
                            ELSE old.health
            /\ new.armor = IF Got("Armor") THEN Min(old.armor + 50 * HP, 100 * HP)
                           ELSE old.armor
            /\ \A i \in 1..4 :
                  /\ new.weapons[i].ammo = IF Got("Ammo") THEN Refilled(i)
                                           ELSE old.weapons[i].ammo
                  /\ new.weapons[i].last_shot = old.weapons[i].last_shot
            /\ new.speed_boost = IF Got("SpeedBoost") THEN 10 * TicksPerSec
                                 ELSE Max(old.speed_boost - last_frame.dt, 0)
            /\ new.damage_boost = IF Got("DamageBoost") THEN 10 * TicksPerSec
                                  ELSE Max(old.damage_boost - last_frame.dt, 0)
            /\ new.kills = old.kills
            /\ new.current_weapon = old.current_weapon
            /\ new.pos = old.pos

\* A Health pickup taken at health 90: the health stops at MAX_HEALTH.
C19_Witness ==
    /\ Did("update_pickups")
    /\ Got("Health")
    /\ Before.player.health = 90 * HP
    /\ world.player.health = MAX_HEALTH
    /\ world.player.score = Before.player.score + 50

\* ------------------------------------------------------------------------
\* C20 -- explosion kills
\* ------------------------------------------------------------------------
Blast == Did("explode") \/ Did("update_projectiles")

\* C20: an enemy killed by an explosion adds exactly its flat points to the
\* score; the explosion changes neither combo nor combo_timer (nor the kill
\* count) and adds no combo bonus, whatever the combo is.
C20_BlastKillsFlat ==
    Blast =>
        /\ world.player.score = Before.player.score + SumPoints(Slain, 1)
        /\ world.combo = Before.combo
        /\ world.combo_timer = Before.combo_timer
        /\ world.player.kills = Before.player.kills

\* A Grunt dies in an explosion while the combo is 2: the score grows by 100.
C20_Witness ==
    /\ Did("explode")
    /\ Before.combo = 2
    /\ Before.combo_timer > 0
    /\ \E i \in Slain : world.enemies[i].etype = "Grunt"
    /\ Cardinality(Slain) = 1
    /\ world.player.score = Before.player.score + 100
    /\ world.combo = 2
    /\ world.combo_timer = Before.combo_timer

\* ------------------------------------------------------------------------
\* C21 -- grid queries outside the grid
\* ------------------------------------------------------------------------
InGrid(level, gx, gz) == gx >= 0 /\ gz >= 0 /\ gx < level.width /\ gz < level.height

\* C21: is_wall is true for every cell index outside the grid and tells the
\* '#' cells inside it; get_floor_height is 0.0 for every coordinate whose
\* cell is outside the grid, negative coordinates included, and the floor
\* height of the coordinate's cell otherwise.
C21_GridDefaults ==
    Did("grid") =>
        LET q == last_frame.arg
            level == Lvl(Before)
            cx == q.x \div CELL_SIZE
            cz == q.z \div CELL_SIZE
        IN  /\ cx = q.gx /\ cz = q.gz
            /\ ~InGrid(level, q.gx, q.gz) => q.is_wall /\ q.get_floor_height = 0
            /\ InGrid(level, q.gx, q.gz) =>
                  /\ q.is_wall = (level.grid[q.gz + 1][q.gx + 1] = "#")
                  /\ q.get_floor_height =
                        IF <<cx, cz>> \in DOMAIN level.floor THEN level.floor[<<cx, cz>>]
                        ELSE 0

\* A coordinate 0.01 west of the grid, beside the row of level 4 that holds
\* the raised floor.
C21_Witness ==
    /\ Did("grid")
    /\ Before.current_level = 4
    /\ last_frame.arg.x = -1 /\ last_frame.arg.gx = -1 /\ last_frame.arg.gz = 2
    /\ last_frame.arg.is_wall
    /\ last_frame.arg.get_floor_height = 0

\* ------------------------------------------------------------------------
\* C22 -- the hit-scan march
\* ------------------------------------------------------------------------
\* Sample k of the march of the last raycast_shot, whether it lies in a wall
\* footprint, and whether the hit sphere of living enemy i holds it.
RayPoint(k) == PointAt(Before.player.pos, last_frame.arg.dir, k * RAY_STEP)
RayInWall(k) == check_collision(Lvl(Before), RayPoint(k).x, RayPoint(k).z, 10)
RayInEnemy(k, i) ==
    /\ ~Before.enemies[i].dead
    /\ 100 * LenSq(VSub(RayPoint(k), Before.enemies[i].pos))
         < 64 * EnemyTable[Before.enemies[i].etype].size
              * EnemyTable[Before.enemies[i].etype].size
RayStops == {k \in 0 .. RAY_SAMPLES - 1 :
                RayInWall(k) \/ \E i \in DOMAIN Before.enemies : RayInEnemy(k, i)}
Damaged == {i \in DOMAIN world.enemies : world.enemies[i].health # Before.enemies[i].health}

\* C22: the march stops at the first sample that lies in a wall footprint or
\* in a living enemy's hit sphere; a wall at that sample wins, so nothing
\* beyond a blocking wall is damaged; otherwise the earliest enemy in
\* collection order among those holding the sample, and only that one, loses
\* the pellet's damage.
C22_FirstStopWins ==
    Did("raycast_shot") =>
        \E stops \in {RayStops} :
          /\ Cardinality(Damaged) <= 1
          /\ \A i \in DOMAIN world.enemies : i \notin Damaged => world.enemies[i] = Before.enemies[i]
          /\ IF stops = {} THEN Damaged = {}
             ELSE \E k \in stops :
                    /\ \A j \in stops : k <= j
                    /\ LET holders == {i \in DOMAIN Before.enemies : RayInEnemy(k, i)}
                       IN  IF RayInWall(k) \/ holders = {} THEN Damaged = {}
                           ELSE \E i \in holders :
                                  /\ \A j \in holders : i <= j
                                  /\ Damaged = {i}
                                  /\ world.enemies[i].health
                                       = Before.enemies[i].health - last_frame.arg.damage

\* Two living Grunts hold the first stopping sample; the first spawned loses
\* the damage although the second stands nearer to the player.
C22_Witness ==
    /\ Did("raycast_shot")
    /\ Before.current_level = 2
    /\ Damaged = {1}
    /\ ~Before.enemies[2].dead
    /\ Before.enemies[2].pos.x < Before.enemies[1].pos.x
    /\ Before.enemies[2].pos.x > Before.player.pos.x
    /\ \E k \in RayStops : RayInEnemy(k, 1) /\ RayInEnemy(k, 2) /\ \A j \in RayStops : k <= j

\* ------------------------------------------------------------------------
\* C23 -- explosions are queued during the projectile pass
\* ------------------------------------------------------------------------
\* Where the frame carries a projectile, and whether it is in contact there
\* with a wall or with an enemy that was alive when the pass began.
Carried(p) ==
    [p EXCEPT !.pos = Vec3(@.x + TruncDiv(p.vel.x * last_frame.dt, TicksPerSec),
                           @.y + TruncDiv(p.vel.y * last_frame.dt, TicksPerSec),
                           @.z + TruncDiv(p.vel.z * last_frame.dt, TicksPerSec))]
Contact(p) ==
    \/ check_collision(Lvl(Before), p.pos.x, p.pos.z, 20)
    \/ \E i \in DOMAIN Before.enemies :
          ~Before.enemies[i].dead /\ LenSq(VSub(p.pos, Before.enemies[i].pos)) < U * U
Flown == [k \in DOMAIN Before.projectiles |-> Carried(Before.projectiles[k])]
Queue == SelectSeq(Flown, Contact)

\* C23: update_projectiles first carries and tests every projectile against
\* the walls and the enemies alive at the start of the pass, keeping those
\* without contact, and only then applies the queued explosions in queue
\* order: a rocket near an enemy that another rocket of the same frame kills
\* is removed and detonates all the same.
C23_ExplosionsAfterPass ==
    Did("salvo") =>
        \E base \in {[Before EXCEPT !.projectiles = SelectSeq(Flown, LAMBDA p : ~Contact(p))]} :
        \E q \in {Queue} :
          /\ world.projectiles = base.projectiles
          /\ Len(world.particles) = Len(Before.particles) + 3 * Len(q)
          /\ Len(q) = 0 => world = base
          /\ Len(q) = 1 => world = explode(base, q[1].pos, q[1].damage, time, Steady)
          /\ Len(q) = 2 =>
                world = explode(explode(base, q[1].pos, q[1].damage, time, Steady),
                                q[2].pos, q[2].damage, time, Steady)

\* The first rocket comes down on a living enemy and its explosion kills it;
\* the second, 0.5 beside the same enemy, is removed in the same pass.
C23_Witness ==
    /\ Did("salvo")
    /\ ~Before.enemies[1].dead
    /\ Flown[1].pos = Before.enemies[1].pos
    /\ Flown[2].pos = VAdd(Before.enemies[1].pos, Vec3(U \div 2, 0, 0))
    /\ ~check_collision(Lvl(Before), Flown[2].pos.x, Flown[2].pos.z, 20)
    /\ Before.enemies[1].health <= Flown[1].damage
    /\ world.enemies[1].dead
    /\ world.enemies[1].health = Before.enemies[1].health - Flown[1].damage
    /\ world.projectiles = <<>>
    /\ Len(world.particles) = Len(Before.particles) + 6

\* ------------------------------------------------------------------------
\* C24 -- enemy attack and movement conditions
\* ------------------------------------------------------------------------
\* Of the last update_enemies call: the squared horizontal distance of enemy i
\* to the player before its move, and whether enemy i attacks.
Reach(i) ==
    LenSq(Vec3(Before.player.pos.x - Before.enemies[i].pos.x, 0,
               Before.player.pos.z - Before.enemies[i].pos.z))
Strikes(i) ==
    /\ ~Before.enemies[i].dead
    /\ Reach(i) < (2 * U) * (2 * U)
    /\ time - Before.enemies[i].last_attack > EnemyTable[Before.enemies[i].etype].attack_cd

\* The player after the attacks of enemies i, i + 1, ... in collection order.
RECURSIVE Struck(_, _)
Struck(pl, i) ==
    IF i > Len(Before.enemies) THEN pl
    ELSE Struck(IF Strikes(i) THEN Attack(pl, EnemyTable[Before.enemies[i].etype].damage)
                ELSE pl, i + 1)

MovedOnGround(i) ==
    \/ world.enemies[i].pos.x # Before.enemies[i].pos.x
    \/ world.enemies[i].pos.z # Before.enemies[i].pos.z

\* C24 as stated: the player is damaged exactly when a living enemy is closer
\* than 2.0 with its cooldown elapsed, attacks of one enemy are more than
\* attack_cd apart, and a living enemy moves exactly when its distance is
\* above 1.5.
C24_MovesExactlyBeyondReach ==
    Did("update_enemies") =>
        /\ (world.player.health < Before.player.health)
              <=> \E i \in DOMAIN Before.enemies : Strikes(i)
        /\ \A i \in DOMAIN Before.enemies :
              /\ world.enemies[i].last_attack # Before.enemies[i].last_attack =>
                    world.enemies[i].last_attack - Before.enemies[i].last_attack
                      > EnemyTable[Before.enemies[i].etype].attack_cd
              /\ ~Before.enemies[i].dead =>
                    (MovedOnGround(i) <=> Reach(i) > 150 * 150)

\* C24, amended: a living enemy attacks exactly when its distance before the
\* move is below 2.0 and time - last_attack > attack_cd; the attack stamps
\* last_attack and passes the enemy's damage through the armour to the
\* health, so attacks of one enemy are more than attack_cd apart; at a
\* distance of at most 1.5 the enemy stays where it is, and above 1.5 it
\* takes one step toward the player that is applied per axis only where it
\* does not collide with a wall at radius 0.5.
C24_AttackAndStep ==
    Did("update_enemies") =>
        /\ world.player = Struck(Before.player, 1)
        /\ Before.player.health > 0 =>
              ((world.player.health < Before.player.health)
                 <=> \E i \in DOMAIN Before.enemies : Strikes(i))
        /\ \A i \in DOMAIN Before.enemies :
              LET e == Before.enemies[i]
                  et == EnemyTable[e.etype]
              IN  ~e.dead =>
                  /\ world.enemies[i].last_attack = IF Strikes(i) THEN time ELSE e.last_attack
                  /\ Strikes(i) => time - e.last_attack > et.attack_cd
                  /\ Reach(i) <= 150 * 150 => world.enemies[i].pos = e.pos
                  /\ Reach(i) > 150 * 150 =>
                        \E dir \in {ScaleDir(Vec3(Before.player.pos.x - e.pos.x, 0,
                                                  Before.player.pos.z - e.pos.z))} :
                        \E p \in {Slide(Lvl(Before), e.pos.x, e.pos.z,
                                        e.pos.x + TruncDiv(dir.x * et.speed * last_frame.dt,
                                                           1000 * TicksPerSec),
                                        e.pos.z + TruncDiv(dir.z * et.speed * last_frame.dt,
                                                           1000 * TicksPerSec), 50)} :
                           /\ world.enemies[i].pos.x = p[1]
                           /\ world.enemies[i].pos.z = p[2]
                           /\ world.enemies[i].pos.y
                                = get_floor_height(Lvl(Before), p[1], p[2]) + et.size

\* A living Heavy 6.5 units from the player, pressed against the far side of
\* a wall: its step toward the player collides and it stays on its spot.
C24_Witness ==
    /\ Did("update_enemies")
    /\ ~Before.enemies[1].dead
    /\ Reach(1) > 150 * 150
    /\ ~MovedOnGround(1)
    /\ world.player = Before.player

\* ------------------------------------------------------------------------
\* C25.  The gamepad edge flags.
\* ------------------------------------------------------------------------
Pressed(button) ==
    \E k \in 1..Len(last_frame.events) :
        last_frame.events[k] = <<"ButtonPressed", button>>

Held == last_frame.gamepad.start_pressed /\ ~Pressed("Start")

\* C25: after every frame an edge flag of the gamepad is set exactly when
\* that frame polled a ButtonPressed event of its button, whatever the flags
\* were before; so a frame in which Start is merely held down has no Start
\* edge: without Escape it leaves Paused as Paused and, without Enter, Menu
\* as Menu.  A frame with a Start press takes Playing to Paused (to Dead
\* when health is used up), and takes Dead to Menu with the player and the
\* level as they were, no new run being started in that frame.
C25_EdgeInOneFrame ==
    Stepped =>
        /\ gamepad.start_just_pressed <=> Pressed("Start")
        /\ gamepad.b_just_pressed <=> Pressed("East")
        /\ Held /\ ~Pressed("East") /\ ~last_frame.escape /\ Before.state = "Paused"
              => world.state = "Paused"
        /\ Held /\ ~last_frame.enter /\ Before.state = "Menu"
              => world = Before
        /\ Pressed("Start") /\ Before.state = "Playing"
              => world.state = IF world.player.health <= 0 THEN "Dead" ELSE "Paused"
        /\ Pressed("Start") /\ Before.state = "Dead"
              => /\ world.state = "Menu"
                 /\ world.player = Before.player
                 /\ world.enemies = Before.enemies

\* Start went down in an earlier frame, which paused the game, and is still
\* down in this frame, which leaves the game paused.
C25_Witness ==
    /\ Stepped
    /\ Held
    /\ gamepad.start_pressed
    /\ last_frame.events = <<>>
    /\ Before.state = "Paused"
    /\ world.state = "Paused"

\* ------------------------------------------------------------------------
\* C26.  State and health after update.
\* ------------------------------------------------------------------------
Consistent(w) ==
    /\ w.state \in {"Playing", "Paused", "Victory"} => w.player.health > 0
    /\ w.state = "Dead" => w.player.health = 0

\* C26: update, called on a world whose state and health are consistent,
\* leaves them consistent: Playing, Paused and Victory have health > 0 and
\* Dead has health 0.  A Playing frame that ends with no health left ends in
\* Dead, also when it cleared the level on the exit marker or when the pause
\* input was pressed in it.
C26_StateMatchesHealth ==
    Did("update") /\ Consistent(Before) =>
        /\ Consistent(world)
        /\ Before.state = "Playing" /\ world.player.health <= 0
              => world.state = "Dead"

\* A rocket's blast takes the last health of a player who stands on the exit
\* marker of the cleared level and presses pause in the same frame.
C26_Witness ==
    /\ Did("update")
    /\ Before.state = "Playing" /\ Before.player.health > 0
    /\ AllDead(world) /\ NearExit(world)
    /\ last_frame.arg.start_just
    /\ world.player.health = 0
    /\ world.state = "Dead"

\* ------------------------------------------------------------------------
\* C27.  Nobody stands in a wall.
\* ------------------------------------------------------------------------
OnFloor(w, pos) ==
    LET gx == TruncDiv(pos.x, CELL_SIZE)
        gz == TruncDiv(pos.z, CELL_SIZE)
    IN  /\ pos.x >= 0 /\ pos.z >= 0
        /\ gx < Lvl(w).width /\ gz < Lvl(w).height
        /\ ~is_wall(Lvl(w), gx, gz)

\* C27: in every state the player's position does not collide with a wall
\* at radius PLAYER_RADIUS and no enemy's position, dead or alive, collides
\* at radius 0.5; each of them is inside the grid on a cell that is no wall.
C27_NobodyInWall ==
    /\ ~check_collision(Lvl(world), world.player.pos.x, world.player.pos.z, PLAYER_RADIUS)
    /\ OnFloor(world, world.player.pos)
    /\ \A i \in DOMAIN world.enemies :
          /\ ~check_collision(Lvl(world), world.enemies[i].pos.x, world.enemies[i].pos.z, 50)
          /\ OnFloor(world, world.enemies[i].pos)

\* A frame in which the player walks against a wall and is held where he
\* stood, while an enemy walks on.
C27_Witness ==
    /\ Stepped /\ Before.state = "Playing"
    /\ last_frame.fwd # 0
    /\ world.player.pos = Before.player.pos
    /\ \E i \in DOMAIN world.enemies : world.enemies[i].pos # Before.enemies[i].pos

\* ------------------------------------------------------------------------
\* C28.  Dead means out of health.
\* ------------------------------------------------------------------------
\* C28: in every state every enemy is dead exactly when its health is <= 0,
\* and every projectile in flight is explosive.
C28_DeadIffNoHealth ==
    /\ \A i \in DOMAIN world.enemies :
          world.enemies[i].dead <=> world.enemies[i].health <= 0
    /\ \A k \in DOMAIN world.projectiles : world.projectiles[k].explosive

\* A frame in which a rocket reaches an enemy and its blast takes more than
\* the health the enemy had left.
C28_Witness ==
    /\ Stepped /\ Before.state = "Playing"
    /\ Len(world.projectiles) < Len(Before.projectiles) + (IF last_frame.shoot THEN 1 ELSE 0)
    /\ \E i \in DOMAIN world.enemies :
          /\ ~Before.enemies[i].dead /\ Before.enemies[i].health > 0
          /\ world.enemies[i].dead /\ world.enemies[i].health < 0
          /\ world.player.kills = Before.player.kills

\* ------------------------------------------------------------------------
\* C29.  Projectiles expire.
\* ------------------------------------------------------------------------
\* C29: while frames with dt > 0 go on in Playing, a projectile in flight is
\* eventually removed: sooner or later no projectile is left (or the game
\* has left Playing).
C29_ProjectilesExpire ==
    <>(world.projectiles = <<>> \/ world.state # "Playing")

\* A rocket fired as steeply upward as the clamp allows has flown for more
\* than five seconds, high above everything, when it comes to the wall and
\* is removed.
C29_Witness ==
    /\ Did("frame")
    /\ time > UnitTime + 5 * TicksPerSec
    /\ Before.state = "Playing" /\ world.state = "Playing"
    /\ Len(Before.projectiles) = 1
    /\ Before.projectiles[1].pos.y > 10 * U
    /\ world.projectiles = <<>>

\* ------------------------------------------------------------------------
\* C30.  Kill counters.
\* ------------------------------------------------------------------------
\* C30: every enemy death is counted once, by hit-scan or by explosion: in
\* every state player.kills is the number of dead enemies of the current
\* level, and a Playing frame raises total_kills by the number of enemies
\* that died in it.
C30_KillsCountDeaths ==
    /\ world.player.kills =
          Cardinality({i \in DOMAIN world.enemies : world.enemies[i].dead})
    /\ Played => world.total_kills - Before.total_kills = Cardinality(Slain)

\* C30, the frame that is not counted: a rocket's blast kills an enemy and
\* both counters stay as they were.
C30_BlastKillUncounted ==
    /\ Played
    /\ Slain # {}
    /\ world.player.kills = Before.player.kills
    /\ world.total_kills = Before.total_kills

====
